---- MODULE Spec2Model ----
(***************************************************************************)
(* Goldwarden agent core.                                                  *)
(*   - the encrypted credential store and its lock state machine           *)
(*     (package config: Config, ConfigFile, Unlock/Lock/Purge/UpdatePin,   *)
(*     the field accessors, encryptString/decryptString, WriteConfig);     *)
(*   - the notification channel and the synchronisation engine             *)
(*     (package bitwarden: connectToWebsocket, websocketMessageType,       *)
(*     parseMessageTypeFromMessagePack, DoFullSync).                       *)
(*                                                                         *)
(* Strings and byte strings are sequences: "" is <<>>.  A derived key, a   *)
(* digest and a ciphertext are free constructors over their inputs (the    *)
(* KDF, SHA3 and the AEAD are taken to be collision free, and the AEAD to  *)
(* reject every ciphertext made under another key).                        *)
(***************************************************************************)
EXTENDS Integers, Sequences, FiniteSets, TLC

VARIABLES
    cfg,        \* the Config object: key buffer, ConfigFile record, mutex
    disk,       \* the persisted config file (a ConfigFile record) or NoFile
    pincache,   \* package pincache: the cached PIN, EmptyString when none
    ret,        \* the last completed Config call: name, arguments, result
    nops,       \* number of Config calls made so far
    sinceLock,  \* history: what happened since the last Lock() of a store with a PIN
    rekey,      \* history: progress of an UpdatePin; Lock; Unlock round trip
    upd,        \* a goroutine inside UpdatePin: its position and locals
    acc,        \* a goroutine inside a field accessor: its position and locals
    vault,      \* the in-memory vault: its item collections and status fields
    ws,         \* the websocket daemon: its position and the socket
    evt,        \* the last push message or sync call handled, and its inputs
    now,        \* time.Now().Unix(), one tick per message or sync call
    fs,         \* a goroutine inside DoFullSync: its position and locals
    heap,       \* contents of the key buffers the Config has replaced without a Wipe()
    paths       \* which of the old config file, the new directory and the new
                \* config file of the migration exist

storeVars == <<cfg, disk, pincache, ret, nops>>

histVars == <<sinceLock, rekey, heap>>

raceVars == <<upd, acc>>

syncVars == <<vault, ws, evt, now, fs>>

vars == <<cfg, disk, pincache, ret, nops, sinceLock, rekey, upd, acc, vault, ws, evt,
          now, fs, heap, paths>>

---------------------------------------------------------------------------
(* Bounds of the model *)

\* PINs the user can type; Config calls made; and, with the daemon running,
\* push messages, full syncs and Config calls made altogether
MaxPin == 2
MaxOps == 4
MaxTime == 2

---------------------------------------------------------------------------
(* Values *)

EmptyString == <<>>

\* PINs / passwords the user can type
Pins == { <<p>> : p \in 1..MaxPin }

\* plaintext values handed to the setters, the empty string included
Plain == { EmptyString, <<"s">> }

\* LoginToken values: only AccessToken is read by this core
LoginTokens == { [AccessToken |-> a] : a \in Plain }

EmptyLoginToken == [AccessToken |-> EmptyString]

Fields == { "EncryptedToken", "EncryptedUserSymmetricKey",
            "EncryptedMasterPasswordHash", "EncryptedMasterKey",
            "EncryptedClientID", "EncryptedClientSecret" }

\* the order in which UpdatePin decrypts and re-encrypts the fields
FieldOrder == << "EncryptedToken", "EncryptedUserSymmetricKey",
                 "EncryptedMasterPasswordHash", "EncryptedMasterKey",
                 "EncryptedClientID", "EncryptedClientSecret" >>

ErrNil == "nil"
ErrLocked == "config is locked"
ErrCipher == "cipher error"
ErrJson == "json error"
ErrIO == "io error"

\* what a call returned: ok for a boolean result, err and val for (value, error)
Ret(op, arg, ok, err, val) == [op |-> op, arg |-> arg, ok |-> ok, err |-> err, val |-> val]

\* outcomes of writing the config file
IOOutcomes == {"written", "failed"}

NoFile == [exists |-> FALSE]

---------------------------------------------------------------------------
(* Key buffer, KDF, digest, AEAD *)

\* NewBuffer(32, useMemguard): 32 zero bytes
NewBuffer == [kdf |-> "zero", password |-> EmptyString, salt |-> EmptyString]

\* make([]byte, 32)
ZeroKey == [kdf |-> "zero", password |-> EmptyString, salt |-> EmptyString]

\* argon2.Key(password, salt, KDFIterations, KDFMemory, KDFThreads, 32)
Argon2Key(password, salt) == [kdf |-> "argon2id", password |-> password, salt |-> salt]

\* hex.EncodeToString(sha3.Sum256(key))
Sha3Hex(key) == << [sha3 |-> key] >>

\* subtle.ConstantTimeCompare(a, b): 1 when equal, 0 otherwise
ConstantTimeCompare(a, b) == IF a = b THEN 1 ELSE 0

\* base64(ChaCha20Poly1305(key).Encrypt(data, nil)): never the empty string
Seal(key, data) == << [key |-> key, data |-> data] >>

\* ChaCha20Poly1305(key).Decrypt(base64decode(text), nil)
Open(key, text) ==
    IF Len(text) = 0 THEN [err |-> ErrCipher, val |-> EmptyString]
    ELSE IF text[1].key # key THEN [err |-> ErrCipher, val |-> EmptyString]
    ELSE [err |-> ErrNil, val |-> text[1].data]

\* json.Marshal(token)
JsonMarshal(token) == <<"{">> \o token.AccessToken \o <<"}">>

\* json.Unmarshal(text, &token)
JsonUnmarshal(text) ==
    IF Len(text) >= 2 /\ text[1] = "{" /\ text[Len(text)] = "}"
    THEN [err |-> ErrNil, val |-> [AccessToken |-> SubSeq(text, 2, Len(text) - 1)]]
    ELSE [err |-> ErrJson, val |-> EmptyLoginToken]

---------------------------------------------------------------------------
(* Config: construction and queries *)

DeviceUUIDs == { <<"uuid">> }

DefaultConfig(deviceUUID) ==
    [ key |-> NewBuffer,
      ConfigFile |->
        [ EncryptedClientID |-> EmptyString,
          EncryptedClientSecret |-> EmptyString,
          DeviceUUID |-> deviceUUID,
          ConfigKeyHash |-> EmptyString,
          EncryptedToken |-> EmptyString,
          EncryptedUserSymmetricKey |-> EmptyString,
          EncryptedMasterPasswordHash |-> EmptyString,
          EncryptedMasterKey |-> EmptyString,
          RuntimeConfig |-> [DoNotPersistConfig |-> FALSE] ],
      mu |-> "unlocked" ]

HasPin(c) == c.ConfigFile.ConfigKeyHash # EmptyString

\* the zero values ConfigFile{} and Config{}: the key pointer is nil
ZeroConfigFile == DefaultConfig(EmptyString).ConfigFile
NilBuffer == [kdf |-> "nil", password |-> EmptyString, salt |-> EmptyString]
ZeroConfig == [key |-> NilBuffer, ConfigFile |-> ZeroConfigFile, mu |-> "unlocked"]

\* a config file that is not the JSON of a ConfigFile
CorruptFile == [corrupt |-> TRUE]

\* the paths after a migration, or with nothing to migrate
Migrated == [old |-> FALSE, parent |-> TRUE, new |-> TRUE]

\* decoder.Decode(&config): RuntimeConfig is not in the JSON
Decode(file) == [file EXCEPT !.RuntimeConfig = ZeroConfigFile.RuntimeConfig]

\* ReadConfig(rtCfg): file is what rtCfg.ConfigDirectory holds, p says which
\* paths exist, mkdir, rename and open are the outcomes of os.Mkdir,
\* os.Rename and os.Open. The Config and error returned, and the paths after
ReadConfig(file, p, mkdir, rename, open) ==
    IF p.old /\ ~p.new
    THEN IF ~p.parent
         THEN [ config |-> ZeroConfig, err |-> IF mkdir THEN ErrNil ELSE ErrIO,
                paths |-> [p EXCEPT !.parent = mkdir] ]
         ELSE [ config |-> ZeroConfig, err |-> IF rename THEN ErrNil ELSE ErrIO,
                paths |-> IF rename THEN [p EXCEPT !.old = FALSE, !.new = TRUE] ELSE p ]
    ELSE IF file = NoFile \/ ~open
    THEN [ config |-> [ZeroConfig EXCEPT !.key = NewBuffer], err |-> ErrIO, paths |-> p ]
    ELSE IF file = CorruptFile
    THEN [ config |-> [ZeroConfig EXCEPT !.key = NewBuffer], err |-> ErrJson, paths |-> p ]
    ELSE [ config |-> [ZeroConfig EXCEPT !.key = NewBuffer, !.ConfigFile = Decode(file)],
           err |-> ErrNil, paths |-> p ]

\* mutant of IsLocked: the HasPin() conjunct is dropped
IsLocked_KeyOnly(c) == c.key = ZeroKey

IsLocked(c) == c.key = ZeroKey /\ HasPin(c)

IsLoggedIn(c) == c.ConfigFile.EncryptedMasterPasswordHash # EmptyString

encryptString(c, data) ==
    IF IsLocked(c) THEN [err |-> ErrLocked, val |-> EmptyString]
    ELSE [err |-> ErrNil, val |-> Seal(c.key, data)]

decryptString(c, data) ==
    IF IsLocked(c) THEN [err |-> ErrLocked, val |-> EmptyString]
    ELSE Open(c.key, data)

---------------------------------------------------------------------------
(* WriteConfig *)

\* The file after config.WriteConfig(): the old file is removed first, so a
\* failing MkdirAll/OpenFile/Write leaves no complete record behind.
WriteConfig(c, file, io) ==
    IF c.ConfigFile.RuntimeConfig.DoNotPersistConfig
    THEN [disk |-> file, err |-> ErrNil]
    ELSE IF io = "written"
    THEN [disk |-> c.ConfigFile, err |-> ErrNil]
    ELSE [disk |-> NoFile, err |-> ErrIO]

\* WriteConfig takes config.mu unless persistence is switched off
CanWriteConfig(c) ==
    c.ConfigFile.RuntimeConfig.DoNotPersistConfig \/ c.mu = "unlocked"

---------------------------------------------------------------------------
(* Lock state machine *)

\* mutant of Unlock: the digest comparison is dropped, any PIN unlocks
Unlock_NoCompare(password) ==
    /\ nops < MaxOps
    /\ cfg.mu = "unlocked"
    /\ nops' = nops + 1
    /\ disk' = disk
    /\ IF ~IsLocked(cfg)
       THEN /\ ret' = Ret("Unlock", password, TRUE, ErrNil, EmptyString)
            /\ UNCHANGED <<cfg, pincache>>
       ELSE /\ cfg' = [cfg EXCEPT !.key = Argon2Key(password, cfg.ConfigFile.DeviceUUID)]
            /\ pincache' = password
            /\ ret' = Ret("Unlock", password, TRUE, ErrNil, EmptyString)

Unlock(password) ==
    /\ nops < MaxOps
    /\ cfg.mu = "unlocked"
    /\ nops' = nops + 1
    /\ disk' = disk
    /\ IF ~IsLocked(cfg)
       THEN /\ ret' = Ret("Unlock", password, TRUE, ErrNil, EmptyString)
            /\ UNCHANGED <<cfg, pincache>>
       ELSE LET key == Argon2Key(password, cfg.ConfigFile.DeviceUUID)
                configKeyHash == Sha3Hex(key)
            IN  IF ConstantTimeCompare(configKeyHash, cfg.ConfigFile.ConfigKeyHash) # 1
                THEN /\ ret' = Ret("Unlock", password, FALSE, ErrNil, EmptyString)
                     /\ UNCHANGED <<cfg, pincache>>
                ELSE /\ cfg' = [cfg EXCEPT !.key = key]
                     /\ pincache' = password
                     /\ ret' = Ret("Unlock", password, TRUE, ErrNil, EmptyString)

\* mutant of VerifyPin: a matching PIN installs the key, as Unlock does
VerifyPin_InstallsKey(password) ==
    /\ nops < MaxOps
    /\ nops' = nops + 1
    /\ LET key == Argon2Key(password, cfg.ConfigFile.DeviceUUID)
           configKeyHash == Sha3Hex(key)
           ok == ConstantTimeCompare(configKeyHash, cfg.ConfigFile.ConfigKeyHash) = 1
       IN  /\ ret' = Ret("VerifyPin", password, ok, ErrNil, EmptyString)
           /\ cfg' = IF ok THEN [cfg EXCEPT !.key = key] ELSE cfg
    /\ UNCHANGED <<disk, pincache>>

VerifyPin(password) ==
    /\ nops < MaxOps
    /\ nops' = nops + 1
    /\ LET key == Argon2Key(password, cfg.ConfigFile.DeviceUUID)
           configKeyHash == Sha3Hex(key)
       IN  ret' = Ret("VerifyPin", password,
                      ConstantTimeCompare(configKeyHash, cfg.ConfigFile.ConfigKeyHash) = 1,
                      ErrNil, EmptyString)
    /\ UNCHANGED <<cfg, disk, pincache>>

\* mutant of Lock: the key buffer is not wiped
Lock_NoWipe ==
    /\ nops < MaxOps
    /\ cfg.mu = "unlocked"
    /\ nops' = nops + 1
    /\ ret' = Ret("Lock", EmptyString, TRUE, ErrNil, EmptyString)
    /\ UNCHANGED <<cfg, disk, pincache>>

Lock ==
    /\ nops < MaxOps
    /\ cfg.mu = "unlocked"
    /\ nops' = nops + 1
    /\ ret' = Ret("Lock", EmptyString, TRUE, ErrNil, EmptyString)
    /\ IF IsLocked(cfg)
       THEN cfg' = cfg
       ELSE cfg' = [cfg EXCEPT !.key = ZeroKey]
    /\ UNCHANGED <<disk, pincache>>

Purge ==
    /\ nops < MaxOps
    /\ cfg.mu = "unlocked"
    /\ nops' = nops + 1
    /\ ret' = Ret("Purge", EmptyString, TRUE, ErrNil, EmptyString)
    /\ cfg' = [cfg EXCEPT
                 !.ConfigFile.EncryptedMasterPasswordHash = EmptyString,
                 !.ConfigFile.EncryptedToken = EmptyString,
                 !.ConfigFile.EncryptedUserSymmetricKey = EmptyString,
                 !.ConfigFile.EncryptedClientID = EmptyString,
                 !.ConfigFile.EncryptedClientSecret = EmptyString,
                 !.ConfigFile.ConfigKeyHash = EmptyString,
                 !.ConfigFile.EncryptedMasterKey = EmptyString,
                 !.key = NewBuffer]
    /\ UNCHANGED <<disk, pincache>>

---------------------------------------------------------------------------
(* UpdatePin *)

\* lines 311-316: every field decrypted with the key in place at that point
DecryptAll(c) == [f \in Fields |-> decryptString(c, c.ConfigFile[f])]

\* lines 321-362: the fields re-encrypted in order, from field i on; the first
\* failing encryptString returns from UpdatePin with the mutex still held.
\* fails names the field for which ca.Encrypt returns an error, "none" if it
\* returns none.
RECURSIVE ReEncryptFrom(_, _, _, _)
ReEncryptFrom(c, plaintext, i, fails) ==
    IF i > Len(FieldOrder) THEN [c |-> c, returned |-> FALSE]
    ELSE LET f == FieldOrder[i] IN
         IF plaintext[f].err = ErrNil
         THEN LET e == IF f = fails THEN [err |-> ErrCipher, val |-> EmptyString]
                       ELSE encryptString(c, plaintext[f].val)
                  c1 == [c EXCEPT !.ConfigFile[f] = e.val]
              IN  IF e.err # ErrNil
                  THEN [c |-> c1, returned |-> TRUE]
                  ELSE ReEncryptFrom(c1, plaintext, i + 1, fails)
         ELSE ReEncryptFrom(c, plaintext, i + 1, fails)

\* UpdatePin(password, write) with the outcomes of its library calls: io is
\* that of WriteConfig, fails that of ca.Encrypt
UpdatePinWith(password, write, io, fails) ==
    /\ nops < MaxOps
    /\ cfg.mu = "unlocked"
    /\ nops' = nops + 1
    /\ LET newKey == Argon2Key(password, cfg.ConfigFile.DeviceUUID)
           configKeyHash == Sha3Hex(newKey)
           c1 == [cfg EXCEPT !.mu = "locked", !.ConfigFile.ConfigKeyHash = configKeyHash]
           plaintext == DecryptAll(c1)
           c2 == [c1 EXCEPT !.key = newKey]
           r == ReEncryptFrom(c2, plaintext, 1, fails)
       IN  IF r.returned
           THEN /\ cfg' = r.c
                /\ ret' = Ret("UpdatePin", password, FALSE, ErrCipher, EmptyString)
                /\ UNCHANGED <<disk, pincache>>
           ELSE LET c3 == [r.c EXCEPT !.mu = "unlocked"]
                    w == WriteConfig(c3, disk, io)
                IN  /\ cfg' = c3
                    /\ IF write
                       THEN /\ disk' = w.disk
                            /\ IF w.err # ErrNil
                               THEN /\ pincache' = pincache
                                    /\ ret' = Ret("UpdatePin", password, FALSE, w.err, EmptyString)
                               ELSE /\ pincache' = password
                                    /\ ret' = Ret("UpdatePin", password, TRUE, ErrNil, EmptyString)
                       ELSE /\ disk' = disk
                            /\ pincache' = password
                            /\ ret' = Ret("UpdatePin", password, TRUE, ErrNil, EmptyString)

\* UpdatePin when every encryption succeeds
UpdatePin(password, write, io) == UpdatePinWith(password, write, io, "none")

---------------------------------------------------------------------------
(* Field accessors *)

\* (token, err) of c.GetToken()
TokenOf(c) ==
    IF IsLocked(c) THEN [err |-> ErrLocked, val |-> EmptyLoginToken]
    ELSE LET tokenJson == decryptString(c, c.ConfigFile.EncryptedToken) IN
         IF tokenJson.err # ErrNil
         THEN [err |-> tokenJson.err, val |-> EmptyLoginToken]
         ELSE LET token == JsonUnmarshal(tokenJson.val) IN
              IF token.err # ErrNil
              THEN [err |-> token.err, val |-> EmptyLoginToken]
              ELSE [err |-> ErrNil, val |-> token.val]

GetToken ==
    /\ nops < MaxOps
    /\ nops' = nops + 1
    /\ LET r == TokenOf(cfg) IN
       ret' = Ret("GetToken", EmptyString, r.err = ErrNil, r.err, r.val)
    /\ UNCHANGED <<cfg, disk, pincache>>

SetToken(token, io) ==
    /\ nops < MaxOps
    /\ nops' = nops + 1
    /\ pincache' = pincache
    /\ IF IsLocked(cfg)
       THEN /\ ret' = Ret("SetToken", token, FALSE, ErrLocked, EmptyString)
            /\ UNCHANGED <<cfg, disk>>
       ELSE LET tokenJson == JsonMarshal(token)
                encryptedToken == encryptString(cfg, tokenJson)
            IN  IF encryptedToken.err # ErrNil
                THEN /\ ret' = Ret("SetToken", token, FALSE, encryptedToken.err, EmptyString)
                     /\ UNCHANGED <<cfg, disk>>
                ELSE LET c1 == [cfg EXCEPT !.ConfigFile.EncryptedToken = encryptedToken.val]
                         w == WriteConfig(c1, disk, io)
                     IN  /\ CanWriteConfig(c1)
                         /\ cfg' = c1
                         /\ disk' = w.disk
                         /\ ret' = Ret("SetToken", token, w.err = ErrNil, w.err, EmptyString)

GetClientID ==
    /\ nops < MaxOps
    /\ nops' = nops + 1
    /\ IF IsLocked(cfg)
       THEN ret' = Ret("GetClientID", EmptyString, FALSE, ErrLocked, EmptyString)
       ELSE IF cfg.ConfigFile.EncryptedClientID = EmptyString
       THEN ret' = Ret("GetClientID", EmptyString, TRUE, ErrNil, EmptyString)
       ELSE LET decrypted == decryptString(cfg, cfg.ConfigFile.EncryptedClientID) IN
            IF decrypted.err # ErrNil
            THEN ret' = Ret("GetClientID", EmptyString, FALSE, decrypted.err, EmptyString)
            ELSE ret' = Ret("GetClientID", EmptyString, TRUE, ErrNil, decrypted.val)
    /\ UNCHANGED <<cfg, disk, pincache>>

SetClientID(clientID, io) ==
    /\ nops < MaxOps
    /\ nops' = nops + 1
    /\ pincache' = pincache
    /\ IF IsLocked(cfg)
       THEN /\ ret' = Ret("SetClientID", clientID, FALSE, ErrLocked, EmptyString)
            /\ UNCHANGED <<cfg, disk>>
       ELSE IF clientID = EmptyString
       THEN LET c1 == [cfg EXCEPT !.ConfigFile.EncryptedClientID = EmptyString]
                w == WriteConfig(c1, disk, io)
            IN  /\ CanWriteConfig(c1)
                /\ cfg' = c1
                /\ disk' = w.disk
                /\ ret' = Ret("SetClientID", clientID, w.err = ErrNil, w.err, EmptyString)
       ELSE LET encryptedClientID == encryptString(cfg, clientID) IN
            IF encryptedClientID.err # ErrNil
            THEN /\ ret' = Ret("SetClientID", clientID, FALSE, encryptedClientID.err, EmptyString)
                 /\ UNCHANGED <<cfg, disk>>
            ELSE LET c1 == [cfg EXCEPT !.ConfigFile.EncryptedClientID = encryptedClientID.val]
                     w == WriteConfig(c1, disk, io)
                 IN  /\ CanWriteConfig(c1)
                     /\ cfg' = c1
                     /\ disk' = w.disk
                     /\ ret' = Ret("SetClientID", clientID, w.err = ErrNil, w.err, EmptyString)

GetClientSecret ==
    /\ nops < MaxOps
    /\ nops' = nops + 1
    /\ IF IsLocked(cfg)
       THEN ret' = Ret("GetClientSecret", EmptyString, FALSE, ErrLocked, EmptyString)
       ELSE IF cfg.ConfigFile.EncryptedClientSecret = EmptyString
       THEN ret' = Ret("GetClientSecret", EmptyString, TRUE, ErrNil, EmptyString)
       ELSE LET decrypted == decryptString(cfg, cfg.ConfigFile.EncryptedClientSecret) IN
            IF decrypted.err # ErrNil
            THEN ret' = Ret("GetClientSecret", EmptyString, FALSE, decrypted.err, EmptyString)
            ELSE ret' = Ret("GetClientSecret", EmptyString, TRUE, ErrNil, decrypted.val)
    /\ UNCHANGED <<cfg, disk, pincache>>

SetClientSecret(clientSecret, io) ==
    /\ nops < MaxOps
    /\ nops' = nops + 1
    /\ pincache' = pincache
    /\ IF IsLocked(cfg)
       THEN /\ ret' = Ret("SetClientSecret", clientSecret, FALSE, ErrLocked, EmptyString)
            /\ UNCHANGED <<cfg, disk>>
       ELSE IF clientSecret = EmptyString
       THEN LET c1 == [cfg EXCEPT !.ConfigFile.EncryptedClientSecret = EmptyString]
                w == WriteConfig(c1, disk, io)
            IN  /\ CanWriteConfig(c1)
                /\ cfg' = c1
                /\ disk' = w.disk
                /\ ret' = Ret("SetClientSecret", clientSecret, w.err = ErrNil, w.err, EmptyString)
       ELSE LET encryptedClientSecret == encryptString(cfg, clientSecret) IN
            IF encryptedClientSecret.err # ErrNil
            THEN /\ ret' = Ret("SetClientSecret", clientSecret, FALSE,
                               encryptedClientSecret.err, EmptyString)
                 /\ UNCHANGED <<cfg, disk>>
            ELSE LET c1 == [cfg EXCEPT
                              !.ConfigFile.EncryptedClientSecret = encryptedClientSecret.val]
                     w == WriteConfig(c1, disk, io)
                 IN  /\ CanWriteConfig(c1)
                     /\ cfg' = c1
                     /\ disk' = w.disk
                     /\ ret' = Ret("SetClientSecret", clientSecret, w.err = ErrNil, w.err,
                                   EmptyString)

GetUserSymmetricKey ==
    /\ nops < MaxOps
    /\ nops' = nops + 1
    /\ IF IsLocked(cfg)
       THEN ret' = Ret("GetUserSymmetricKey", EmptyString, FALSE, ErrLocked, EmptyString)
       ELSE LET decrypted == decryptString(cfg, cfg.ConfigFile.EncryptedUserSymmetricKey) IN
            IF decrypted.err # ErrNil
            THEN ret' = Ret("GetUserSymmetricKey", EmptyString, FALSE, decrypted.err, EmptyString)
            ELSE ret' = Ret("GetUserSymmetricKey", EmptyString, TRUE, ErrNil, decrypted.val)
    /\ UNCHANGED <<cfg, disk, pincache>>

SetUserSymmetricKey(key, io) ==
    /\ nops < MaxOps
    /\ nops' = nops + 1
    /\ pincache' = pincache
    /\ IF IsLocked(cfg)
       THEN /\ ret' = Ret("SetUserSymmetricKey", key, FALSE, ErrLocked, EmptyString)
            /\ UNCHANGED <<cfg, disk>>
       ELSE LET encryptedKey == encryptString(cfg, key) IN
            IF encryptedKey.err # ErrNil
            THEN /\ ret' = Ret("SetUserSymmetricKey", key, FALSE, encryptedKey.err, EmptyString)
                 /\ UNCHANGED <<cfg, disk>>
            ELSE LET c1 == [cfg EXCEPT !.ConfigFile.EncryptedUserSymmetricKey = encryptedKey.val]
                     w == WriteConfig(c1, disk, io)
                 IN  /\ CanWriteConfig(c1)
                     /\ cfg' = c1
                     /\ disk' = w.disk
                     /\ ret' = Ret("SetUserSymmetricKey", key, w.err = ErrNil, w.err, EmptyString)

GetMasterPasswordHash ==
    /\ nops < MaxOps
    /\ nops' = nops + 1
    /\ IF IsLocked(cfg)
       THEN ret' = Ret("GetMasterPasswordHash", EmptyString, FALSE, ErrLocked, EmptyString)
       ELSE LET decrypted == decryptString(cfg, cfg.ConfigFile.EncryptedMasterPasswordHash) IN
            IF decrypted.err # ErrNil
            THEN ret' = Ret("GetMasterPasswordHash", EmptyString, FALSE, decrypted.err,
                            EmptyString)
            ELSE ret' = Ret("GetMasterPasswordHash", EmptyString, TRUE, ErrNil, decrypted.val)
    /\ UNCHANGED <<cfg, disk, pincache>>

\* The failing encryptString branch (lines 525-527) calls c.mu.Unlock() on a
\* mutex this call never took; it needs a Lock() between the two IsLocked
\* checks and is taken by the step-wise setter only.
SetMasterPasswordHash(hash, io) ==
    /\ nops < MaxOps
    /\ nops' = nops + 1
    /\ pincache' = pincache
    /\ IF IsLocked(cfg)
       THEN /\ ret' = Ret("SetMasterPasswordHash", hash, FALSE, ErrLocked, EmptyString)
            /\ UNCHANGED <<cfg, disk>>
       ELSE LET encryptedHash == encryptString(cfg, hash) IN
            IF encryptedHash.err # ErrNil
            THEN /\ cfg.mu = "locked"
                 /\ cfg' = [cfg EXCEPT !.mu = "unlocked"]
                 /\ ret' = Ret("SetMasterPasswordHash", hash, FALSE, encryptedHash.err,
                               EmptyString)
                 /\ UNCHANGED disk
            ELSE LET c1 == [cfg EXCEPT
                              !.ConfigFile.EncryptedMasterPasswordHash = encryptedHash.val]
                     w == WriteConfig(c1, disk, io)
                 IN  /\ CanWriteConfig(c1)
                     /\ cfg' = c1
                     /\ disk' = w.disk
                     /\ ret' = Ret("SetMasterPasswordHash", hash, w.err = ErrNil, w.err,
                                   EmptyString)

GetMasterKey ==
    /\ nops < MaxOps
    /\ nops' = nops + 1
    /\ IF IsLocked(cfg)
       THEN ret' = Ret("GetMasterKey", EmptyString, FALSE, ErrLocked, EmptyString)
       ELSE LET decrypted == decryptString(cfg, cfg.ConfigFile.EncryptedMasterKey) IN
            IF decrypted.err # ErrNil
            THEN ret' = Ret("GetMasterKey", EmptyString, FALSE, decrypted.err, EmptyString)
            ELSE ret' = Ret("GetMasterKey", EmptyString, TRUE, ErrNil, decrypted.val)
    /\ UNCHANGED <<cfg, disk, pincache>>

SetMasterKey(key, io) ==
    /\ nops < MaxOps
    /\ nops' = nops + 1
    /\ pincache' = pincache
    /\ IF IsLocked(cfg)
       THEN /\ ret' = Ret("SetMasterKey", key, FALSE, ErrLocked, EmptyString)
            /\ UNCHANGED <<cfg, disk>>
       ELSE LET encryptedKey == encryptString(cfg, key) IN
            IF encryptedKey.err # ErrNil
            THEN /\ ret' = Ret("SetMasterKey", key, FALSE, encryptedKey.err, EmptyString)
                 /\ UNCHANGED <<cfg, disk>>
            ELSE LET c1 == [cfg EXCEPT !.ConfigFile.EncryptedMasterKey = encryptedKey.val]
                     w == WriteConfig(c1, disk, io)
                 IN  /\ CanWriteConfig(c1)
                     /\ cfg' = c1
                     /\ disk' = w.disk
                     /\ ret' = Ret("SetMasterKey", key, w.err = ErrNil, w.err, EmptyString)

---------------------------------------------------------------------------
(* MessagePack, as far as the push frames use it.  A message is a sequence *)
(* of bytes; a decoded value is a record [t, v].                           *)

\* what DecodeInterface yields
MpNil == [t |-> "nil", v |-> <<>>]
MpBool(b) == [t |-> "bool", v |-> b]
MpInt8(n) == [t |-> "int8", v |-> n]
MpUint8(n) == [t |-> "uint8", v |-> n]
MpStr(str) == [t |-> "string", v |-> str]
MpArr(elems) == [t |-> "slice", v |-> elems]
\* a map, as the sequence of its <<key, value>> pairs in wire order
MpMap(pairs) == [t |-> "map", v |-> pairs]

MpFail == [ok |-> FALSE, val |-> MpNil, rest |-> <<>>]

\* msgpack.Decoder.DecodeInterface on the front of bytes: the value and the
\* bytes left over, or a failure (unexpected end of input, a code outside the
\* formats below, a map key that is not a string).
RECURSIVE DecodeInterface(_), DecodeElems(_, _), DecodePairs(_, _)
DecodeInterface(bytes) ==
    IF Len(bytes) = 0 THEN MpFail
    ELSE LET c == bytes[1]
             rest == Tail(bytes)
         IN  IF c < 128                            \* positive fixint -> int8
             THEN [ok |-> TRUE, val |-> MpInt8(c), rest |-> rest]
             ELSE IF c < 144                       \* fixmap
             THEN LET r == DecodePairs(rest, c - 128) IN
                  IF r.ok THEN [ok |-> TRUE, val |-> MpMap(r.val), rest |-> r.rest]
                  ELSE MpFail
             ELSE IF c < 160                       \* fixarray
             THEN LET r == DecodeElems(rest, c - 144) IN
                  IF r.ok THEN [ok |-> TRUE, val |-> MpArr(r.val), rest |-> r.rest]
                  ELSE MpFail
             ELSE IF c < 192                       \* fixstr
             THEN IF Len(rest) < c - 160 THEN MpFail
                  ELSE [ok |-> TRUE, val |-> MpStr(SubSeq(rest, 1, c - 160)),
                        rest |-> SubSeq(rest, c - 160 + 1, Len(rest))]
             ELSE IF c = 192                       \* nil
             THEN [ok |-> TRUE, val |-> MpNil, rest |-> rest]
             ELSE IF c = 194 \/ c = 195            \* false, true
             THEN [ok |-> TRUE, val |-> MpBool(c = 195), rest |-> rest]
             ELSE IF c = 204                       \* uint8
             THEN IF Len(rest) < 1 THEN MpFail
                  ELSE [ok |-> TRUE, val |-> MpUint8(rest[1]), rest |-> Tail(rest)]
             ELSE IF c = 208                       \* int8
             THEN IF Len(rest) < 1 THEN MpFail
                  ELSE [ok |-> TRUE,
                        val |-> MpInt8(IF rest[1] < 128 THEN rest[1] ELSE rest[1] - 256),
                        rest |-> Tail(rest)]
             ELSE IF c >= 224                      \* negative fixint -> int8
             THEN [ok |-> TRUE, val |-> MpInt8(c - 256), rest |-> rest]
             ELSE MpFail

\* n values in a row
DecodeElems(bytes, n) ==
    IF n = 0 THEN [ok |-> TRUE, val |-> <<>>, rest |-> bytes]
    ELSE LET h == DecodeInterface(bytes) IN
         IF ~h.ok THEN MpFail
         ELSE LET t == DecodeElems(h.rest, n - 1) IN
              IF ~t.ok THEN MpFail
              ELSE [ok |-> TRUE, val |-> <<h.val>> \o t.val, rest |-> t.rest]

\* n key/value pairs in a row; DecodeMap wants string keys
DecodePairs(bytes, n) ==
    IF n = 0 THEN [ok |-> TRUE, val |-> <<>>, rest |-> bytes]
    ELSE LET k == DecodeInterface(bytes) IN
         IF ~k.ok \/ k.val.t # "string" THEN MpFail
         ELSE LET v == DecodeInterface(k.rest) IN
              IF ~v.ok THEN MpFail
              ELSE LET t == DecodePairs(v.rest, n - 1) IN
                   IF ~t.ok THEN MpFail
                   ELSE [ok |-> TRUE, val |-> << <<k.val.v, v.val>> >> \o t.val,
                         rest |-> t.rest]

\* msgpack.Decoder.DecodeSlice: (value, err); a nil code gives (nil, nil)
DecodeSlice(bytes) ==
    LET r == DecodeInterface(bytes) IN
    IF ~r.ok THEN [err |-> TRUE, isNil |-> TRUE, value |-> <<>>]
    ELSE IF r.val.t = "nil" THEN [err |-> FALSE, isNil |-> TRUE, value |-> <<>>]
    ELSE IF r.val.t # "slice" THEN [err |-> TRUE, isNil |-> TRUE, value |-> <<>>]
    ELSE [err |-> FALSE, isNil |-> FALSE, value |-> r.val.v]

\* m[key] of a Go map built from the pairs in order: the last pair wins
RECURSIVE MapHas(_, _), MapGet(_, _)
MapHas(pairs, key) ==
    IF Len(pairs) = 0 THEN FALSE
    ELSE pairs[Len(pairs)][1] = key \/ MapHas(SubSeq(pairs, 1, Len(pairs) - 1), key)

MapGet(pairs, key) ==
    IF Len(pairs) = 0 THEN MpNil
    ELSE IF pairs[Len(pairs)][1] = key THEN pairs[Len(pairs)][2]
    ELSE MapGet(SubSeq(pairs, 1, Len(pairs) - 1), key)

\* the map keys the parser looks up: "Type", "Payload", "Id"
KeyType == <<84, 121, 112, 101>>
KeyPayload == <<80, 97, 121, 108, 111, 97, 100>>
KeyId == <<73, 100>>

---------------------------------------------------------------------------
(* Frame parsing *)

\* result of websocketMessageType: (type, id, success), or a run-time panic
Parsed(type, id, success) == [type |-> type, id |-> id, success |-> success, panic |-> FALSE]
ParseFailed == [type |-> 0, id |-> EmptyString, success |-> FALSE, panic |-> FALSE]
ParsePanic == [type |-> 0, id |-> EmptyString, success |-> FALSE, panic |-> TRUE]

\* ParseSlice with a missing "Type" read as the zero value of int8
ParseSlice_TypeDefaultsToZero(value) ==
    IF Len(value) < 5 THEN ParseFailed
    ELSE LET args == value[5] IN
    IF args.t # "slice" \/ Len(args.v) < 1 THEN ParseFailed
    ELSE LET value1 == args.v[1] IN
    IF value1.t # "map" THEN ParseFailed
    ELSE LET messagePayloadType == IF MapHas(value1.v, KeyType)
                                   THEN MapGet(value1.v, KeyType) ELSE MpInt8(0) IN
    IF messagePayloadType.t # "int8" THEN ParseFailed
    ELSE LET payload == MapGet(value1.v, KeyPayload) IN
    IF payload.t # "map" THEN Parsed(messagePayloadType.v, EmptyString, TRUE)
    ELSE IF ~MapHas(payload.v, KeyId) THEN ParseFailed
    ELSE LET id == MapGet(payload.v, KeyId) IN
    IF id.t # "string" THEN ParsePanic
    ELSE Parsed(messagePayloadType.v, id.v, TRUE)

\* lines 257-288, on the slice DecodeSlice returned
ParseSlice(value) ==
    IF Len(value) < 5 THEN ParseFailed
    ELSE LET args == value[5] IN
    IF args.t # "slice" \/ Len(args.v) < 1 THEN ParseFailed
    ELSE LET value1 == args.v[1] IN
    IF value1.t # "map" THEN ParseFailed
    ELSE IF ~MapHas(value1.v, KeyType) THEN ParseFailed
    ELSE LET messagePayloadType == MapGet(value1.v, KeyType) IN
    IF messagePayloadType.t # "int8" THEN ParseFailed
    ELSE LET payload == MapGet(value1.v, KeyPayload) IN
    IF payload.t # "map" THEN Parsed(messagePayloadType.v, EmptyString, TRUE)
    ELSE IF ~MapHas(payload.v, KeyId) THEN ParseFailed
    ELSE LET id == MapGet(payload.v, KeyId) IN
    IF id.t # "string" THEN ParsePanic      \* payload["Id"].(string), unchecked
    ELSE Parsed(messagePayloadType.v, id.v, TRUE)

parseMessageTypeFromMessagePack(messagePack) ==
    LET d == DecodeSlice(messagePack) IN
    IF d.isNil \/ d.err THEN ParseFailed
    ELSE ParseSlice(d.value)

\* mutant of LenBufferLen: the prefix is taken to be one byte long
RECURSIVE LenBufferLen_OneByte(_, _)
LenBufferLen_OneByte(message, i) ==
    IF i > Len(message) THEN 0
    ELSE IF message[i] < 128 THEN i
    ELSE IF i = 1 THEN 1
    ELSE LenBufferLen_OneByte(message, i + 1)

\* lines 239-245: one past the first byte whose high bit is clear, else 0
RECURSIVE LenBufferLen(_, _)
LenBufferLen(message, i) ==
    IF i > Len(message) THEN 0
    ELSE IF message[i] < 128 THEN i
    ELSE LenBufferLen(message, i + 1)

websocketMessageType(message) ==
    LET lenBufferLen == LenBufferLen(message, 1)
        msgPackMessage == SubSeq(message, lenBufferLen + 1, Len(message))
    IN  parseMessageTypeFromMessagePack(msgPackMessage)

---------------------------------------------------------------------------
(* The vault and the full sync *)

\* ids of the items the server holds: "abc", "xyz"
AnId == <<97, 98, 99>>
CipherIds == { AnId, <<120, 121, 122>> }

CipherLogin == "CipherLogin"
CipherNote == "CipherNote"
CipherCard == "CipherCard"
CipherSSHKey == "CipherSSHKey"

CipherTypes == {CipherLogin, CipherNote, CipherCard, CipherSSHKey}

\* the zero time.Time, and an instant at which an item was moved to the trash
ZeroTime == "zero"

\* models.Cipher, as far as this core reads it: under the first id an item of
\* any type, live or in the trash, under the other ids a live login
Ciphers ==
    { c \in [ID : CipherIds, Type : CipherTypes, DeletedDate : {ZeroTime, "deleted"}] :
         c.ID = AnId \/ (c.Type = CipherLogin /\ c.DeletedDate = ZeroTime) }

\* a map with no entry
EmptyMap == [i \in {} |-> i]

MapPut(m, k, x) == [i \in DOMAIN m \cup {k} |-> IF i = k THEN x ELSE m[i]]
MapDelete(m, k) == [i \in DOMAIN m \ {k} |-> m[i]]

\* vault.Vault: one collection per kind of item, each keyed by the item id
NewVault(isMemguard) ==
    [ logins |-> EmptyMap, secureNotes |-> EmptyMap, sshKeys |-> EmptyMap,
      lastSynced |-> 0, websocketConnected |-> FALSE,
      Keyring |-> [IsMemguard |-> isMemguard, initialized |-> FALSE] ]

Clear(v) ==
    [v EXCEPT !.logins = EmptyMap, !.secureNotes = EmptyMap, !.sshKeys = EmptyMap,
              !.lastSynced = 0]

AddOrUpdateLogin(v, cipher) == [v EXCEPT !.logins = MapPut(@, cipher.ID, cipher)]
AddOrUpdateSecureNote(v, cipher) == [v EXCEPT !.secureNotes = MapPut(@, cipher.ID, cipher)]
AddOrUpdateSSHKey(v, cipher) == [v EXCEPT !.sshKeys = MapPut(@, cipher.ID, cipher)]

DeleteCipher(v, uuid) ==
    [v EXCEPT !.logins = MapDelete(@, uuid), !.secureNotes = MapDelete(@, uuid),
              !.sshKeys = MapDelete(@, uuid)]

SetLastSynced(v, t) == [v EXCEPT !.lastSynced = t]
SetWebsocketConnected(v, connected) == [v EXCEPT !.websocketConnected = connected]

\* crypto.InitKeyringFromUserSymmetricKey: the keyring holds the account keys
InitKeyringFromUserSymmetricKey(v) == [v EXCEPT !.Keyring.initialized = TRUE]

\* Keyring.Lock() drops the account keys; Keyring.IsLocked() says they are gone
KeyringLock(v) == [v EXCEPT !.Keyring.initialized = FALSE]
KeyringIsLocked(v) == ~v.Keyring.initialized

\* what Sync() returns: (models.SyncData, error)
SyncFailed == [err |-> TRUE, Ciphers |-> <<>>]
SyncData(ciphers) == [err |-> FALSE, Ciphers |-> ciphers]

\* the snapshots the server can answer with: no item, one item, and two items
\* of which the first is live and the second a live login or note (the same
\* id twice included)
Snapshots ==
    {SyncData(<<>>)} \cup {SyncData(<<c>>) : c \in Ciphers}
       \cup { SyncData(<<c, d>>) :
                 c \in {x \in Ciphers : x.DeletedDate = ZeroTime},
                 d \in {x \in Ciphers : /\ x.DeletedDate = ZeroTime
                                         /\ x.Type \in {CipherLogin, CipherNote}} }

\* lines 56-65: the items from position i on, each into the collection of its type
RECURSIVE AddCiphers(_, _, _)
AddCiphers(v, ciphers, i) ==
    IF i > Len(ciphers) THEN v
    ELSE LET cipher == ciphers[i]
             v1 == CASE cipher.Type = CipherLogin -> AddOrUpdateLogin(v, cipher)
                     [] cipher.Type = CipherNote -> AddOrUpdateSecureNote(v, cipher)
                     [] cipher.Type = CipherSSHKey -> AddOrUpdateSSHKey(v, cipher)
                     [] OTHER -> v
         IN  AddCiphers(v1, ciphers, i + 1)

\* DoFullSync with the vault.Clear() of line 53 left out
DoFullSync_NoClear(v, sync, hasUserSymmetricKey, keyringErr, t) ==
    IF sync.err THEN [err |-> TRUE, vault |-> v]
    ELSE IF hasUserSymmetricKey /\ keyringErr THEN [err |-> TRUE, vault |-> v]
    ELSE LET v1 == IF hasUserSymmetricKey THEN InitKeyringFromUserSymmetricKey(v) ELSE v
         IN  [err |-> FALSE, vault |-> AddCiphers(SetLastSynced(v1, t), sync.Ciphers, 1)]

\* DoFullSync(ctx, vault, config, userSymmetricKey, allowCache): sync is what
\* Sync() returned, t the time of the call; the error and the vault afterwards
DoFullSync(v, sync, hasUserSymmetricKey, keyringErr, t) ==
    IF sync.err THEN [err |-> TRUE, vault |-> v]
    ELSE IF hasUserSymmetricKey /\ keyringErr THEN [err |-> TRUE, vault |-> v]
    ELSE LET v1 == IF hasUserSymmetricKey THEN InitKeyringFromUserSymmetricKey(v) ELSE v
         IN  [err |-> FALSE,
              vault |-> AddCiphers(SetLastSynced(Clear(v1), t), sync.Ciphers, 1)]

---------------------------------------------------------------------------
(* The push messages the server sends *)

\* the MessagePack serialisation of a value
RECURSIVE Encode(_), EncodeElems(_), EncodePairs(_)
Encode(x) ==
    CASE x.t = "nil" -> <<192>>
      [] x.t = "bool" -> <<IF x.v THEN 195 ELSE 194>>
      [] x.t = "int8" -> <<IF x.v >= 0 THEN x.v ELSE 256 + x.v>>
      [] x.t = "uint8" -> <<204, x.v>>
      [] x.t = "string" -> <<160 + Len(x.v)>> \o x.v
      [] x.t = "slice" -> <<144 + Len(x.v)>> \o EncodeElems(x.v)
      [] x.t = "map" -> <<128 + Len(x.v)>> \o EncodePairs(x.v)

EncodeElems(elems) ==
    IF Len(elems) = 0 THEN <<>>
    ELSE Encode(elems[1]) \o EncodeElems(Tail(elems))

EncodePairs(pairs) ==
    IF Len(pairs) = 0 THEN <<>>
    ELSE Encode(MpStr(pairs[1][1])) \o Encode(pairs[1][2]) \o EncodePairs(Tail(pairs))

\* a message on the socket: the bytes, and the value the sender serialised.
\* The length prefix is the length of the body as a base-128 varint
\* ("varint"), the same with one continuation byte more than needed
\* ("padded"), or missing ("none").
Frame(prefix, tree) ==
    LET body == Encode(tree)
        n == Len(body)
        prefixBytes == CASE prefix = "varint" ->
                              IF n < 128 THEN <<n>> ELSE <<128 + (n % 128), n \div 128>>
                         [] prefix = "padded" -> <<128 + (n % 128), n \div 128>>
                         [] prefix = "none" -> <<>>
    IN  [bytes |-> prefixBytes \o body, tree |-> tree]

\* the first n bytes of a message only
Truncated(frame, n) == [frame EXCEPT !.bytes = SubSeq(@, 1, n)]

\* the hub's invocation record: [1, headers, invocation id, target, arguments],
\* the target being "Receive"
Invocation(arguments) ==
    MpArr(<<MpInt8(1), MpMap(<<>>), MpNil, MpStr(<<82, 101, 99, 101, 105, 118, 101>>),
            arguments>>)

\* the one argument: a map with the keys "Ctx", "Type" and "Payload"
Notification(type, payload) ==
    Invocation(MpArr(<< MpMap(<< <<<<67, 116, 120>>, MpStr(<<99>>)>>, <<KeyType, type>>,
                                 <<KeyPayload, payload>> >>) >>))

IdPayload(id) == MpMap(<< <<KeyId, MpStr(id)>> >>)

\* NotificationMessageType
SyncCipherUpdate == 0
SyncCipherCreate == 1
SyncLoginDelete == 2
SyncFolderDelete == 3
SyncCiphers == 4
SyncVault == 5
SyncOrgKeys == 6
SyncFolderCreate == 7
SyncFolderUpdate == 8
SyncCipherDelete == 9
SyncSettings == 10
LogOut == 11
SyncSendCreate == 12
SyncSendUpdate == 13
SyncSendDelete == 14
AuthRequest == 15
AuthRequestResponse == 16

\* every declared type, and one number past them that no constant names
MessageTypes == SyncCipherUpdate .. (AuthRequestResponse + 1)

\* the types whose case reads the id
TypesWithId == {SyncCipherUpdate, SyncCipherCreate, SyncCipherDelete, AuthRequest}

\* messages as the server serialises them
ServerFrames ==
    { Frame("varint", Notification(MpInt8(t), IdPayload(id))) :
         t \in TypesWithId, id \in CipherIds }
    \cup { Frame("varint", Notification(MpInt8(t), MpNil)) : t \in MessageTypes }
    \cup { Frame("padded", Notification(MpInt8(SyncCipherDelete), IdPayload(id))) :
              id \in CipherIds }

\* messages that are not what the parser expects
OddFrames ==
    { \* four top-level elements: element 4 is missing
      Frame("varint", MpArr(<<MpInt8(1), MpMap(<<>>), MpNil, MpStr(KeyType)>>)),
      \* element 4 is not an array, is an empty array
      Frame("varint", Invocation(MpNil)),
      Frame("varint", Invocation(MpArr(<<>>))),
      \* the first argument is not a map
      Frame("varint", Invocation(MpArr(<<MpStr(KeyType)>>))),
      \* no Type, a Type that is a string, a Type sent as uint8
      Frame("varint", Invocation(MpArr(<<MpMap(<< <<KeyPayload, IdPayload(AnId)>> >>)>>))),
      Frame("varint", Notification(MpStr(<<57>>), IdPayload(AnId))),
      Frame("varint", Notification(MpUint8(SyncCipherDelete), IdPayload(AnId))),
      \* a Payload map without Id, with an Id that is not a string
      Frame("varint", Notification(MpInt8(SyncCipherDelete), MpMap(<<>>))),
      Frame("varint", Notification(MpInt8(SyncCipherDelete),
                                   MpMap(<< <<KeyId, MpInt8(1)>> >>))),
      \* the top-level value is a map, is nil
      Frame("varint", MpMap(<< <<KeyType, MpInt8(SyncCipherDelete)>>,
                               <<KeyPayload, IdPayload(AnId)>> >>)),
      Frame("varint", MpNil),
      \* no length prefix
      Frame("none", Notification(MpInt8(SyncCipherDelete), IdPayload(AnId))),
      \* cut short
      Truncated(Frame("varint", Notification(MpInt8(SyncCipherDelete), IdPayload(AnId))), 20),
      Truncated(Frame("varint", Notification(MpInt8(SyncCipherDelete), IdPayload(AnId))), 4),
      Truncated(Frame("varint", MpNil), 0),
      \* short arrays
      Frame("varint", MpArr(<<>>)),
      Frame("varint", MpArr(<<MpNil, MpNil>>)) }

Frames == ServerFrames \cup OddFrames

\* websocketMessageType on every message of the model
TypeOfFrame == [frame \in Frames |-> websocketMessageType(frame.bytes)]

\* what GetCipher returns for an id: an error, or the item the server holds
FetchFailed == [err |-> TRUE, cipher |-> [ID |-> EmptyString, Type |-> CipherLogin,
                                         DeletedDate |-> ZeroTime]]
Fetched(cipher) == [err |-> FALSE, cipher |-> cipher]
GetCipherResults(id) == {FetchFailed} \cup {Fetched(c) : c \in {x \in Ciphers : x.ID = id}}

\* the daemon before its first connection
IdleWs == [pc |-> "daemon", socket |-> "none", monitor |-> "none"]

\* what the sender put on the wire, read off the value it serialised: the value
\* is not an array of five elements or more, its element 4 is not a non-empty
\* array, the first element of that is not a map, or the map has no "Type" or
\* a "Type" that is not an integer
StructurallyInvalid(tree) ==
    IF tree.t # "slice" THEN TRUE
    ELSE IF Len(tree.v) < 5 THEN TRUE
    ELSE IF tree.v[5].t # "slice" THEN TRUE
    ELSE IF Len(tree.v[5].v) = 0 THEN TRUE
    ELSE IF tree.v[5].v[1].t # "map" THEN TRUE
    ELSE LET pairs == tree.v[5].v[1].v IN
         \A i \in 1..Len(pairs) :
            pairs[i][1] = KeyType => pairs[i][2].t \notin {"int8", "uint8"}

\* no full sync in progress
IdleFs == [pc |-> "idle", caller |-> "none", sync |-> SyncFailed, i |-> 0]

\* nothing handled yet
NoEvt ==
    [ kind |-> "none", short |-> FALSE, invalid |-> FALSE,
      id |-> EmptyString, fetch |-> "none", cipher |-> FetchFailed.cipher,
      sync |-> SyncFailed, stale |-> FALSE,
      approval |-> "none", biometrics |-> "none", responded |-> FALSE ]

\* the record of a message handled by the case kind
Handled(kind, frame) ==
    [ NoEvt EXCEPT !.kind = kind,
                   !.short = Len(frame.bytes) < 5,
                   !.invalid = StructurallyInvalid(frame.tree),
                   !.id = IF kind \in {"discarded", "panic"} THEN EmptyString
                          ELSE TypeOfFrame[frame].id ]

---------------------------------------------------------------------------
(* History of the calls, kept for the properties only *)

\* calls that leave the Config object untouched
ReadOnlyOps == { "VerifyPin", "GetToken", "GetClientID", "GetClientSecret",
                 "GetUserSymmetricKey", "GetMasterPasswordHash", "GetMasterKey" }

AccessorOps == { "GetToken", "SetToken", "GetClientID", "SetClientID",
                 "GetClientSecret", "SetClientSecret",
                 "GetUserSymmetricKey", "SetUserSymmetricKey",
                 "GetMasterPasswordHash", "SetMasterPasswordHash",
                 "GetMasterKey", "SetMasterKey" }

NoRekey ==
    [ stage |-> "none", pin |-> EmptyString,
      before |-> [f \in Fields |-> [err |-> ErrCipher, val |-> EmptyString]] ]

\* "locked": Lock() was called on a store with a key hash and no Unlock has
\* succeeded since; "rekeyed": as "locked", and a Purge or UpdatePin followed.
SinceLockNext ==
    IF ret'.op = "Lock" /\ HasPin(cfg) THEN "locked"
    ELSE IF ret'.op = "Unlock" /\ ret'.ok THEN "none"
    ELSE IF ret'.op \in {"Purge", "UpdatePin"} /\ sinceLock # "none" THEN "rekeyed"
    ELSE sinceLock

\* "updated": UpdatePin(pin) ran on a store that was not locked, before holds
\* what every field decrypted to just before it; "locked": Lock() followed;
\* "unlocked": Unlock(pin) followed that.
RekeyNext ==
    IF ret'.op = "UpdatePin"
    THEN IF ~IsLocked(cfg)
         THEN [stage |-> "updated", pin |-> ret'.arg, before |-> DecryptAll(cfg)]
         ELSE NoRekey
    ELSE IF ret'.op = "Lock" /\ rekey.stage = "updated"
    THEN [rekey EXCEPT !.stage = "locked"]
    ELSE IF ret'.op = "Unlock" /\ rekey.stage = "locked" /\ ret'.arg = rekey.pin
    THEN [rekey EXCEPT !.stage = "unlocked"]
    ELSE IF ret'.op \in ReadOnlyOps
    THEN rekey
    ELSE NoRekey

\* goroutine records when no step-wise call is in progress
IdleUpd ==
    [ pc |-> "idle", password |-> EmptyString, write |-> FALSE, newKey |-> ZeroKey,
      configKeyHash |-> EmptyString, plaintext |-> NoRekey.before, i |-> 1 ]

NoObs == [seen |-> FALSE, key |-> ZeroKey, hash |-> EmptyString, text |-> EmptyString]

IdleAcc ==
    [ pc |-> "idle", op |-> "none", field |-> "EncryptedToken", arg |-> EmptyString,
      enc |-> EmptyString, err |-> ErrNil, val |-> EmptyString, obs |-> NoObs ]

History ==
    /\ sinceLock' = SinceLockNext
    /\ rekey' = RekeyNext
    /\ UNCHANGED <<heap, paths, raceVars, syncVars>>

---------------------------------------------------------------------------
(* The credential store driven by its callers, one call at a time *)

Init ==
    /\ \E u \in DeviceUUIDs, np \in BOOLEAN :
          cfg = [DefaultConfig(u) EXCEPT !.ConfigFile.RuntimeConfig.DoNotPersistConfig = np]
    /\ disk = NoFile
    /\ pincache = EmptyString
    /\ ret = Ret("DefaultConfig", EmptyString, TRUE, ErrNil, EmptyString)
    /\ nops = 0
    /\ sinceLock = "none"
    /\ rekey = NoRekey
    /\ upd = IdleUpd
    /\ acc = IdleAcc
    /\ vault = NewVault(FALSE)
    /\ ws = IdleWs
    /\ evt = NoEvt
    /\ now = 0
    /\ fs = IdleFs
    /\ heap = {}
    /\ paths = Migrated

Next ==
    \/ \E password \in Pins : Unlock(password) /\ History
    \/ \E password \in Pins : VerifyPin(password) /\ History
    \/ Lock /\ History
    \/ Purge /\ History
    \/ \E password \in Pins, write \in BOOLEAN, io \in IOOutcomes :
          UpdatePin(password, write, io) /\ History
    \/ GetToken /\ History
    \/ \E token \in LoginTokens, io \in IOOutcomes : SetToken(token, io) /\ History
    \/ GetClientID /\ History
    \/ \E clientID \in Plain, io \in IOOutcomes : SetClientID(clientID, io) /\ History
    \/ GetClientSecret /\ History
    \/ \E clientSecret \in Plain, io \in IOOutcomes :
          SetClientSecret(clientSecret, io) /\ History
    \/ GetUserSymmetricKey /\ History
    \/ \E key \in Plain, io \in IOOutcomes : SetUserSymmetricKey(key, io) /\ History
    \/ GetMasterPasswordHash /\ History
    \/ \E hash \in Plain, io \in IOOutcomes : SetMasterPasswordHash(hash, io) /\ History
    \/ GetMasterKey /\ History
    \/ \E key \in Plain, io \in IOOutcomes : SetMasterKey(key, io) /\ History

Spec == Init /\ [][Next]_vars

---------------------------------------------------------------------------
(* UpdatePin running concurrently with one field accessor.                 *)
(* UpdatePin holds c.mu from line 302 to line 363; the accessors take no   *)
(* lock (their c.mu.Lock() calls are commented out) except inside          *)
(* WriteConfig.  Each step below is one access to the shared Config.       *)

\* line 302-307: c.mu.Lock(), the new key and its digest
UpdatePin_Lock ==
    /\ upd.pc = "start"
    /\ cfg.mu = "unlocked"
    /\ cfg' = [cfg EXCEPT !.mu = "locked"]
    /\ upd' = [upd EXCEPT !.pc = "hash",
                          !.newKey = Argon2Key(upd.password, cfg.ConfigFile.DeviceUUID),
                          !.configKeyHash =
                              Sha3Hex(Argon2Key(upd.password, cfg.ConfigFile.DeviceUUID))]
    /\ UNCHANGED <<disk, pincache, ret, nops, histVars, paths, acc>>

\* line 309
UpdatePin_SetHash ==
    /\ upd.pc = "hash"
    /\ cfg' = [cfg EXCEPT !.ConfigFile.ConfigKeyHash = upd.configKeyHash]
    /\ upd' = [upd EXCEPT !.pc = "decrypt", !.i = 1]
    /\ UNCHANGED <<disk, pincache, ret, nops, histVars, paths, acc>>

\* lines 311-316, one field per step
UpdatePin_Decrypt ==
    /\ upd.pc = "decrypt"
    /\ LET f == FieldOrder[upd.i] IN
       upd' = [upd EXCEPT !.plaintext[f] = decryptString(cfg, cfg.ConfigFile[f]),
                          !.i = IF upd.i = Len(FieldOrder) THEN 1 ELSE upd.i + 1,
                          !.pc = IF upd.i = Len(FieldOrder) THEN "install" ELSE "decrypt"]
    /\ UNCHANGED <<cfg, disk, pincache, ret, nops, histVars, paths, acc>>

\* lines 318-319
UpdatePin_InstallKey ==
    /\ upd.pc = "install"
    /\ cfg' = [cfg EXCEPT !.key = upd.newKey]
    /\ upd' = [upd EXCEPT !.pc = "encrypt", !.i = 1]
    /\ UNCHANGED <<disk, pincache, ret, nops, histVars, paths, acc>>

\* lines 321-362, one field per step; a failing encryptString returns at once
UpdatePin_Encrypt ==
    /\ upd.pc = "encrypt"
    /\ LET f == FieldOrder[upd.i]
           e == encryptString(cfg, upd.plaintext[f].val)
           next == IF upd.i = Len(FieldOrder) THEN "unlock" ELSE "encrypt"
           i1 == IF upd.i = Len(FieldOrder) THEN 1 ELSE upd.i + 1
       IN  IF upd.plaintext[f].err = ErrNil
           THEN /\ cfg' = [cfg EXCEPT !.ConfigFile[f] = e.val]
                /\ upd' = IF e.err # ErrNil
                          THEN [upd EXCEPT !.pc = "returned"]
                          ELSE [upd EXCEPT !.pc = next, !.i = i1]
           ELSE /\ cfg' = cfg
                /\ upd' = [upd EXCEPT !.pc = next, !.i = i1]
    /\ UNCHANGED <<disk, pincache, ret, nops, histVars, paths, acc>>

\* line 363
UpdatePin_Unlock ==
    /\ upd.pc = "unlock"
    /\ cfg' = [cfg EXCEPT !.mu = "unlocked"]
    /\ upd' = [upd EXCEPT !.pc = IF upd.write THEN "write" ELSE "setpin"]
    /\ UNCHANGED <<disk, pincache, ret, nops, histVars, paths, acc>>

\* lines 365-371
UpdatePin_Write(io) ==
    /\ upd.pc = "write"
    /\ CanWriteConfig(cfg)
    /\ LET w == WriteConfig(cfg, disk, io) IN
       /\ disk' = w.disk
       /\ upd' = [upd EXCEPT !.pc = IF w.err # ErrNil THEN "done" ELSE "setpin"]
    /\ UNCHANGED <<cfg, pincache, ret, nops, histVars, paths, acc>>

\* line 373
UpdatePin_SetPin ==
    /\ upd.pc = "setpin"
    /\ pincache' = upd.password
    /\ upd' = [upd EXCEPT !.pc = "done"]
    /\ UNCHANGED <<cfg, disk, ret, nops, histVars, paths, acc>>

\* the string a setter encrypts: SetToken marshals the token first
SetterData(field, arg) ==
    IF field = "EncryptedToken" THEN JsonMarshal(arg) ELSE arg

\* the fields whose accessors treat the empty string specially
ClearableFields == { "EncryptedClientID", "EncryptedClientSecret" }

\* Set*: the IsLocked() check, and the clientID == "" test of lines 433, 469
Set_Check ==
    /\ acc.pc = "start" /\ acc.op = "Set"
    /\ acc' = IF IsLocked(cfg)
              THEN [acc EXCEPT !.pc = "done", !.err = ErrLocked]
              ELSE IF acc.field \in ClearableFields /\ acc.arg = EmptyString
              THEN [acc EXCEPT !.pc = "assign", !.enc = EmptyString]
              ELSE [acc EXCEPT !.pc = "encrypt"]
    /\ UNCHANGED <<cfg, disk, pincache, ret, nops, histVars, paths, upd>>

\* Set*: encryptString under the key in place now.  SetMasterPasswordHash
\* (lines 525-527) unlocks c.mu on failure although it never locked it: that
\* releases another goroutine's lock, or is a fatal error when c.mu is free.
Set_Encrypt ==
    /\ acc.pc = "encrypt"
    /\ LET e == encryptString(cfg, SetterData(acc.field, acc.arg))
           o == [seen |-> TRUE, key |-> cfg.key, hash |-> cfg.ConfigFile.ConfigKeyHash,
                 text |-> cfg.ConfigFile[acc.field]]
       IN  IF e.err # ErrNil
           THEN IF acc.field = "EncryptedMasterPasswordHash"
                THEN /\ cfg' = [cfg EXCEPT !.mu = "unlocked"]
                     /\ acc' = [acc EXCEPT !.err = e.err,
                                  !.pc = IF cfg.mu = "unlocked" THEN "fatal" ELSE "done"]
                ELSE /\ cfg' = cfg
                     /\ acc' = [acc EXCEPT !.err = e.err, !.pc = "done"]
           ELSE /\ cfg' = cfg
                /\ acc' = [acc EXCEPT !.enc = e.val, !.pc = "assign", !.obs = o]
    /\ UNCHANGED <<disk, pincache, ret, nops, histVars, paths, upd>>

\* Set*: c.ConfigFile.Encrypted... = encrypted...
Set_Assign ==
    /\ acc.pc = "assign"
    /\ cfg' = [cfg EXCEPT !.ConfigFile[acc.field] = acc.enc]
    /\ acc' = [acc EXCEPT !.pc = "write"]
    /\ UNCHANGED <<disk, pincache, ret, nops, histVars, paths, upd>>

\* Set*: return c.WriteConfig()
Set_Write(io) ==
    /\ acc.pc = "write"
    /\ CanWriteConfig(cfg)
    /\ LET w == WriteConfig(cfg, disk, io) IN
       /\ disk' = w.disk
       /\ acc' = [acc EXCEPT !.pc = "done", !.err = w.err]
    /\ UNCHANGED <<cfg, pincache, ret, nops, histVars, paths, upd>>

\* Get*: the IsLocked() check, and the empty-field test of lines 417, 453
Get_Check ==
    /\ acc.pc = "start" /\ acc.op = "Get"
    /\ acc' = IF IsLocked(cfg)
              THEN [acc EXCEPT !.pc = "done", !.err = ErrLocked]
              ELSE IF acc.field \in ClearableFields /\ cfg.ConfigFile[acc.field] = EmptyString
              THEN [acc EXCEPT !.pc = "done", !.err = ErrNil, !.val = EmptyString]
              ELSE [acc EXCEPT !.pc = "decrypt"]
    /\ UNCHANGED <<cfg, disk, pincache, ret, nops, histVars, paths, upd>>

\* Get*: decryptString of the field as it is now, under the key in place now
Get_Decrypt ==
    /\ acc.pc = "decrypt"
    /\ LET d == decryptString(cfg, cfg.ConfigFile[acc.field])
           o == [seen |-> TRUE, key |-> cfg.key, hash |-> cfg.ConfigFile.ConfigKeyHash,
                 text |-> cfg.ConfigFile[acc.field]]
           j == JsonUnmarshal(d.val)
       IN  acc' = IF d.err # ErrNil
                  THEN [acc EXCEPT !.pc = "done", !.err = d.err, !.obs = o]
                  ELSE IF acc.field = "EncryptedToken"
                  THEN [acc EXCEPT !.pc = "done", !.err = j.err,
                                   !.val = j.val.AccessToken, !.obs = o]
                  ELSE [acc EXCEPT !.pc = "done", !.err = ErrNil, !.val = d.val, !.obs = o]
    /\ UNCHANGED <<cfg, disk, pincache, ret, nops, histVars, paths, upd>>

\* the PIN the store of InitRace was set up with, and what its fields hold
RacePin == <<1>>

RacePlain == <<"s">>

\* An unlocked store with every field set: what UpdatePin(RacePin) followed by
\* the six setters leaves behind.
UnlockedConfig(deviceUUID, np) ==
    LET k == Argon2Key(RacePin, deviceUUID)
        d == DefaultConfig(deviceUUID)
    IN  [ d EXCEPT
            !.key = k,
            !.ConfigFile =
               [ f \in DOMAIN d.ConfigFile |->
                   IF f \in Fields
                   THEN Seal(k, SetterData(f, IF f = "EncryptedToken"
                                              THEN [AccessToken |-> RacePlain]
                                              ELSE RacePlain))
                   ELSE IF f = "ConfigKeyHash" THEN Sha3Hex(k)
                   ELSE IF f = "RuntimeConfig" THEN [DoNotPersistConfig |-> np]
                   ELSE d.ConfigFile[f] ] ]

\* the value a Set* call of the race is given
RaceArgs(field) ==
    IF field = "EncryptedToken" THEN { [AccessToken |-> <<"t">>] }
    ELSE IF field \in ClearableFields THEN { EmptyString, <<"t">> }
    ELSE { <<"t">> }

InitRace ==
    /\ \E u \in DeviceUUIDs, np \in BOOLEAN :
          /\ cfg = UnlockedConfig(u, np)
          /\ disk = IF np THEN NoFile ELSE UnlockedConfig(u, np).ConfigFile
    /\ pincache = RacePin
    /\ ret = Ret("DefaultConfig", EmptyString, TRUE, ErrNil, EmptyString)
    /\ nops = 0
    /\ sinceLock = "none"
    /\ rekey = NoRekey
    /\ \E password \in Pins, write \in BOOLEAN :
          upd = [IdleUpd EXCEPT !.pc = "start", !.password = password, !.write = write]
    /\ \E op \in {"Get", "Set"}, field \in Fields :
          \E arg \in RaceArgs(field) :
             acc = [IdleAcc EXCEPT !.pc = "start", !.op = op, !.field = field,
                                   !.arg = IF op = "Set" THEN arg ELSE EmptyString]
    /\ vault = NewVault(FALSE)
    /\ ws = IdleWs
    /\ evt = NoEvt
    /\ now = 0
    /\ fs = IdleFs
    /\ heap = {}
    /\ paths = Migrated

NextRace ==
    \/ UpdatePin_Lock /\ UNCHANGED syncVars
    \/ UpdatePin_SetHash /\ UNCHANGED syncVars
    \/ UpdatePin_Decrypt /\ UNCHANGED syncVars
    \/ UpdatePin_InstallKey /\ UNCHANGED syncVars
    \/ UpdatePin_Encrypt /\ UNCHANGED syncVars
    \/ UpdatePin_Unlock /\ UNCHANGED syncVars
    \/ \E io \in IOOutcomes : UpdatePin_Write(io) /\ UNCHANGED syncVars
    \/ UpdatePin_SetPin /\ UNCHANGED syncVars
    \/ Set_Check /\ UNCHANGED syncVars
    \/ Set_Encrypt /\ UNCHANGED syncVars
    \/ Set_Assign /\ UNCHANGED syncVars
    \/ \E io \in IOOutcomes : Set_Write(io) /\ UNCHANGED syncVars
    \/ Get_Check /\ UNCHANGED syncVars
    \/ Get_Decrypt /\ UNCHANGED syncVars

SpecRace == InitRace /\ [][NextRace]_vars

---------------------------------------------------------------------------
(* The websocket daemon: RunWebsocketDaemon, connectToWebsocket and its two *)
(* goroutines.  The reader handles one message per step.                    *)

\* mutant of DaemonGoesOn: the access token is not looked at
DaemonGoesOn_AnyToken(c) ==
    /\ ~IsLocked(c)
    /\ TokenOf(c).err = ErrNil

\* lines 56-61: the round of the loop gets to connectToWebsocket
DaemonGoesOn(c) ==
    /\ ~IsLocked(c)
    /\ LET token == TokenOf(c) IN token.err = ErrNil /\ token.val.AccessToken # EmptyString

\* RunWebsocketDaemon, one round of its loop that gets past the checks of
\* lines 56 and 61, and connectToWebsocket up to line 98
Connect(outcome) ==
    /\ ws.pc = "daemon"
    /\ DaemonGoesOn(cfg)
    /\ TokenOf(cfg).err = ErrNil
    /\ CASE outcome = "dial failed" ->
              /\ ws' = ws
              /\ vault' = vault
         [] outcome = "handshake failed" ->
              /\ ws' = ws
              /\ vault' = SetWebsocketConnected(vault, TRUE)
         [] outcome = "connected" ->
              /\ ws' = [pc |-> "reading", socket |-> "open", monitor |-> "running"]
              /\ vault' = SetWebsocketConnected(vault, TRUE)
    /\ UNCHANGED <<evt, now, fs, storeVars, histVars, paths, raceVars>>

\* line 103: the condition on which the monitor closes the socket
MonitorTrips == KeyringIsLocked(vault) \/ IsLocked(cfg) \/ ~IsLoggedIn(cfg)

\* mutant of Monitor: the goroutine returns without closing the socket
Monitor_NoClose ==
    /\ ws.pc = "reading"
    /\ ws.monitor = "running"
    /\ MonitorTrips
    /\ ws' = [ws EXCEPT !.monitor = "returned"]
    /\ UNCHANGED <<vault, evt, now, fs, storeVars, histVars, paths, raceVars>>

\* the goroutine of lines 100-108, one wake-up that finds the condition true
Monitor ==
    /\ ws.pc = "reading"
    /\ ws.monitor = "running"
    /\ MonitorTrips
    /\ ws' = [ws EXCEPT !.socket = "closed", !.monitor = "returned"]
    /\ UNCHANGED <<vault, evt, now, fs, storeVars, histVars, paths, raceVars>>

\* ReadMessage returns an error: the reader returns and closes done
ReadError ==
    /\ ws.pc = "reading"
    /\ ws' = [ws EXCEPT !.pc = "done"]
    /\ UNCHANGED <<vault, evt, now, fs, storeVars, histVars, paths, raceVars>>

\* lines 233-235, and the deferred c.Close()
Join ==
    /\ ws.pc = "done"
    /\ ws' = IdleWs
    /\ vault' = SetWebsocketConnected(vault, FALSE)
    /\ UNCHANGED <<evt, now, fs, storeVars, histVars, paths, raceVars>>

\* the process is still running
Running == ws.pc \notin {"exit", "panic"}

\* messages, sync calls and Config calls so far are fewer than the bound
Budget == now + nops < MaxTime

\* ReadMessage returns the bytes of frame
Received(frame) ==
    /\ ws.pc = "reading"
    /\ ws.socket = "open"
    /\ Budget
    /\ now' = now + 1
    /\ UNCHANGED <<fs, storeVars, histVars, paths, raceVars>>

\* the message went through websocketMessageType and came out with this type
Dispatched(frame, types) ==
    /\ Len(frame.bytes) >= 5
    /\ LET p == TypeOfFrame[frame] IN
          ~p.panic /\ p.success /\ p.type \in types

\* the ids the vault holds
VaultIds(v) == DOMAIN v.logins \cup DOMAIN v.secureNotes \cup DOMAIN v.sshKeys

\* lines 118-121, and line 123 when success is false
Discard(frame) ==
    /\ Received(frame)
    /\ \/ Len(frame.bytes) < 5
       \/ LET p == TypeOfFrame[frame] IN ~p.panic /\ ~p.success
    /\ evt' = Handled("discarded", frame)
    /\ UNCHANGED <<vault, ws>>

\* line 288: the type assertion on payload["Id"] fails
ReaderPanic(frame) ==
    /\ Received(frame)
    /\ Len(frame.bytes) >= 5
    /\ TypeOfFrame[frame].panic
    /\ evt' = Handled("panic", frame)
    /\ ws' = [ws EXCEPT !.pc = "panic"]
    /\ UNCHANGED vault

\* lines 126-137
OnSyncCiphers(frame, sync) ==
    /\ Received(frame)
    /\ Dispatched(frame, {SyncCiphers, SyncVault})
    /\ LET token == TokenOf(cfg)
           r == DoFullSync(vault, sync, FALSE, FALSE, now')
           e == Handled("SyncCiphers", frame)
       IN  IF token.err # ErrNil
           THEN /\ evt' = [e EXCEPT !.fetch = "no token"]
                /\ UNCHANGED <<vault, ws>>
           ELSE IF r.err
           THEN /\ evt' = [e EXCEPT !.fetch = "failed"]
                /\ ws' = [ws EXCEPT !.pc = "done"]
                /\ vault' = r.vault
           ELSE /\ evt' = [e EXCEPT !.fetch = "fetched", !.sync = sync,
                                    !.stale = \E id \in VaultIds(vault) :
                                                 \A i \in DOMAIN sync.Ciphers :
                                                    sync.Ciphers[i].ID # id]
                /\ vault' = r.vault
                /\ ws' = ws

\* lines 138-140
OnCipherDelete(frame) ==
    /\ Received(frame)
    /\ Dispatched(frame, {SyncCipherDelete})
    /\ evt' = Handled("SyncCipherDelete", frame)
    /\ vault' = DeleteCipher(vault, TypeOfFrame[frame].id)
    /\ ws' = ws

\* lines 141-165
OnCipherUpdate(frame, fetched) ==
    /\ Received(frame)
    /\ Dispatched(frame, {SyncCipherUpdate})
    /\ fetched \in GetCipherResults(TypeOfFrame[frame].id)
    /\ LET cipherid == TypeOfFrame[frame].id
           token == TokenOf(cfg)
           cipher == fetched.cipher
           e == Handled("SyncCipherUpdate", frame)
       IN  IF token.err # ErrNil
           THEN evt' = [e EXCEPT !.fetch = "no token"] /\ vault' = vault
           ELSE IF fetched.err
           THEN evt' = [e EXCEPT !.fetch = "failed"] /\ vault' = vault
           ELSE /\ evt' = [e EXCEPT !.fetch = "fetched", !.cipher = cipher]
                /\ IF cipher.DeletedDate # ZeroTime
                   THEN vault' = DeleteCipher(vault, cipherid)
                   ELSE IF cipher.Type = CipherNote
                   THEN vault' = SetLastSynced(AddOrUpdateSecureNote(vault, cipher), now')
                   ELSE vault' = SetLastSynced(AddOrUpdateLogin(vault, cipher), now')
    /\ ws' = ws

\* lines 166-185
OnCipherCreate(frame, fetched) ==
    /\ Received(frame)
    /\ Dispatched(frame, {SyncCipherCreate})
    /\ fetched \in GetCipherResults(TypeOfFrame[frame].id)
    /\ LET cipherid == TypeOfFrame[frame].id
           token == TokenOf(cfg)
           cipher == fetched.cipher
           e == Handled("SyncCipherCreate", frame)
       IN  IF token.err # ErrNil
           THEN evt' = [e EXCEPT !.fetch = "no token"] /\ vault' = vault
           ELSE IF fetched.err
           THEN evt' = [e EXCEPT !.fetch = "failed"] /\ vault' = vault
           ELSE /\ evt' = [e EXCEPT !.fetch = "fetched", !.cipher = cipher]
                /\ IF cipher.Type = CipherNote
                   THEN vault' = SetLastSynced(AddOrUpdateSecureNote(vault, cipher), now')
                   ELSE vault' = SetLastSynced(AddOrUpdateLogin(vault, cipher), now')
    /\ ws' = ws

\* the types whose case only logs, and the default case
LoggedTypes ==
    MessageTypes \ {SyncCiphers, SyncVault, SyncCipherDelete, SyncCipherUpdate,
                    SyncCipherCreate, LogOut, AuthRequest}

\* lines 186-187 and 220-227
OnLoggedOnly(frame) ==
    /\ Received(frame)
    /\ Dispatched(frame, LoggedTypes)
    /\ evt' = Handled("logged", frame)
    /\ UNCHANGED <<vault, ws>>

\* lines 190-194: the call that ends the process
ExitCall(v) == IF v.Keyring.IsMemguard THEN "memguard.SafeExit(0)" ELSE "os.Exit(0)"

\* lines 188-194: the process exits
OnLogOut(frame) ==
    /\ Received(frame)
    /\ Dispatched(frame, {LogOut})
    /\ evt' = Handled("LogOut", frame)
    /\ ws' = [ws EXCEPT !.pc = "exit"]
    /\ UNCHANGED vault

\* mutant of CallsCreateAuthResponse: the biometrics check is left out
CallsCreateAuthResponse_NoBiometrics(clicked, approval, biometrics) ==
    IF ~clicked THEN FALSE
    ELSE IF approval # "approved" THEN FALSE
    ELSE TRUE

\* lines 204-218: whether the callback handed to notify.Notify gets to
\* CreateAuthResponse. clicked says whether the callback ran; approval folds
\* the (approved, err) pair of pinentry.GetApproval into one value
CallsCreateAuthResponse(clicked, approval, biometrics) ==
    IF ~clicked THEN FALSE
    ELSE IF approval # "approved" THEN FALSE
    ELSE IF ~biometrics THEN FALSE
    ELSE TRUE

\* lines 195-219: fetched is the outcome of GetAuthRequest
OnAuthRequest(frame, fetched, clicked, approval, biometrics) ==
    /\ Received(frame)
    /\ Dispatched(frame, {AuthRequest})
    /\ LET e == Handled("AuthRequest", frame)
       IN  IF fetched = "failed"
           THEN evt' = [e EXCEPT !.fetch = "failed"]
           ELSE evt' = [e EXCEPT
                          !.fetch = "fetched",
                          !.approval = IF clicked THEN approval ELSE "none",
                          !.biometrics = IF clicked /\ approval = "approved"
                                         THEN (IF biometrics THEN "passed" ELSE "failed")
                                         ELSE "none",
                          !.responded = CallsCreateAuthResponse(clicked, approval, biometrics)]
    /\ UNCHANGED <<vault, ws>>

\* DoFullSync called by the agent after a login or an unlock, with the user
\* symmetric key at hand
FullSync(sync, keyringErr) ==
    /\ Running
    /\ Budget
    /\ now' = now + 1
    /\ LET r == DoFullSync(vault, sync, TRUE, keyringErr, now') IN
          /\ vault' = r.vault
          /\ evt' = IF r.err THEN [NoEvt EXCEPT !.kind = "DoFullSync", !.fetch = "failed"]
                    ELSE [NoEvt EXCEPT !.kind = "DoFullSync", !.fetch = "fetched",
                                       !.sync = sync,
                                       !.stale = \E id \in VaultIds(vault) :
                                                    \A i \in DOMAIN sync.Ciphers :
                                                       sync.Ciphers[i].ID # id]
    /\ UNCHANGED <<ws, fs, storeVars, histVars, paths, raceVars>>

InitSync ==
    /\ \E u \in DeviceUUIDs :
          /\ cfg = UnlockedConfig(u, FALSE)
          /\ disk = UnlockedConfig(u, FALSE).ConfigFile
    /\ pincache = RacePin
    /\ ret = Ret("DefaultConfig", EmptyString, TRUE, ErrNil, EmptyString)
    /\ nops = 0
    /\ sinceLock = "none"
    /\ rekey = NoRekey
    /\ upd = IdleUpd
    /\ acc = IdleAcc
    /\ \E isMemguard \in BOOLEAN :
          vault = InitKeyringFromUserSymmetricKey(NewVault(isMemguard))
    /\ ws = IdleWs
    /\ evt = NoEvt
    /\ now = 0
    /\ fs = IdleFs
    /\ heap = {}
    /\ paths = Migrated

NextSync ==
    \/ \E outcome \in {"dial failed", "handshake failed", "connected"} : Connect(outcome)
    \/ Monitor
    \/ ReadError
    \/ Join
    \/ \E frame \in Frames : Discard(frame)
    \/ \E frame \in Frames : ReaderPanic(frame)
    \/ \E frame \in Frames, sync \in {SyncFailed} \cup Snapshots : OnSyncCiphers(frame, sync)
    \/ \E frame \in Frames : OnCipherDelete(frame)
    \/ \E frame \in Frames, fetched \in {FetchFailed} \cup {Fetched(c) : c \in Ciphers} :
          OnCipherUpdate(frame, fetched)
    \/ \E frame \in Frames, fetched \in {FetchFailed} \cup {Fetched(c) : c \in Ciphers} :
          OnCipherCreate(frame, fetched)
    \/ \E frame \in Frames : OnLoggedOnly(frame)
    \/ \E frame \in Frames : OnLogOut(frame)
    \/ \E frame \in Frames, fetched \in {"failed", "fetched"}, clicked \in BOOLEAN,
          approval \in {"approved", "declined", "error"}, biometrics \in BOOLEAN :
          OnAuthRequest(frame, fetched, clicked, approval, biometrics)
    \/ \E sync \in {SyncFailed} \cup Snapshots, keyringErr \in BOOLEAN : FullSync(sync, keyringErr)
    \/ Running /\ Budget /\ Lock /\ History
    \/ \E password \in Pins : Running /\ Budget /\ Unlock(password) /\ History

SpecSync == InitSync /\ [][NextSync]_vars

---------------------------------------------------------------------------
(* The connection life cycle under scheduling assumptions: the daemon, the  *)
(* monitor, the reader and the callers that lock, unlock or purge the store *)
(* or lock the keyring.                                                     *)

\* the agent locks the keyring
LockKeyring ==
    /\ Running
    /\ ~KeyringIsLocked(vault)
    /\ vault' = KeyringLock(vault)
    /\ UNCHANGED <<ws, evt, now, fs, storeVars, histVars, paths, raceVars>>

NextLive ==
    \/ \E outcome \in {"dial failed", "handshake failed", "connected"} : Connect(outcome)
    \/ Monitor
    \/ ReadError
    \/ Join
    \/ \E frame \in Frames : Discard(frame)
    \/ \E frame \in Frames : OnCipherDelete(frame)
    \/ \E frame \in Frames : OnLogOut(frame)
    \/ LockKeyring
    \/ Running /\ Budget /\ Lock /\ History
    \/ \E password \in Pins : Running /\ Budget /\ Unlock(password) /\ History
    \/ Running /\ Budget /\ Purge /\ History
    \/ \E token \in LoginTokens, io \in IOOutcomes :
          Running /\ Budget /\ SetToken(token, io) /\ History

\* the monitor wakes up every five seconds; a read on a closed socket returns;
\* connectToWebsocket, woken by done, runs on
Fairness ==
    /\ WF_vars(Monitor)
    /\ WF_vars(ReadError /\ ws.socket = "closed")
    /\ WF_vars(Join)

SpecLive == InitSync /\ [][NextLive]_vars /\ Fairness

---------------------------------------------------------------------------
(* The agent starting: ReadConfig, run after run *)

\* one start of the agent: the Config it begins with is the one ReadConfig
\* returned
Start(mkdir, rename, open) ==
    /\ nops < MaxOps
    /\ nops' = nops + 1
    /\ LET r == ReadConfig(disk, paths, mkdir, rename, open) IN
          /\ cfg' = r.config
          /\ paths' = r.paths
          /\ ret' = Ret("ReadConfig", EmptyString, r.err = ErrNil, r.err, EmptyString)
    /\ UNCHANGED <<disk, pincache, sinceLock, rekey, heap, raceVars, syncVars>>

InitRead ==
    /\ cfg = ZeroConfig
    /\ disk \in {NoFile, CorruptFile}
                \cup { DefaultConfig(u).ConfigFile : u \in DeviceUUIDs }
                \cup { UnlockedConfig(u, FALSE).ConfigFile : u \in DeviceUUIDs }
    /\ pincache = EmptyString
    /\ ret = Ret("none", EmptyString, TRUE, ErrNil, EmptyString)
    /\ nops = 0
    /\ sinceLock = "none"
    /\ rekey = NoRekey
    /\ upd = IdleUpd
    /\ acc = IdleAcc
    /\ vault = NewVault(FALSE)
    /\ ws = IdleWs
    /\ evt = NoEvt
    /\ now = 0
    /\ fs = IdleFs
    /\ heap = {}
    /\ paths \in { p \in [old : BOOLEAN, parent : BOOLEAN, new : BOOLEAN] :
                      p.new => p.parent }

NextRead ==
    \E mkdir \in BOOLEAN, rename \in BOOLEAN, open \in BOOLEAN : Start(mkdir, rename, open)

SpecRead == InitRead /\ [][NextRead]_vars

---------------------------------------------------------------------------
(* TryUnlock: the PIN from the cache or the prompt, Unlock, then the keyring *)

\* lines 240-256: whether Unlock(password) succeeds on c, and c afterwards
UnlockOf(c, password) ==
    IF ~IsLocked(c) THEN [ok |-> TRUE, c |-> c, installed |-> FALSE]
    ELSE LET key == Argon2Key(password, c.ConfigFile.DeviceUUID) IN
         IF ConstantTimeCompare(Sha3Hex(key), c.ConfigFile.ConfigKeyHash) # 1
         THEN [ok |-> FALSE, c |-> c, installed |-> FALSE]
         ELSE [ok |-> TRUE, c |-> [c EXCEPT !.key = key], installed |-> TRUE]

\* TryUnlock(vault): entered is what the prompt returns when the cache holds
\* no PIN, pinErr says that pincache.GetPin or pinentry.GetPassword failed,
\* keyRejected that the bytes of the user symmetric key were refused
TryUnlock(entered, pinErr, keyRejected) ==
    /\ nops < MaxOps
    /\ cfg.mu = "unlocked"
    /\ nops' = nops + 1
    /\ disk' = disk
    /\ LET pin == IF pincache # EmptyString THEN pincache ELSE entered
           u == UnlockOf(cfg, pin)
           userKey == IF IsLocked(u.c) THEN [err |-> ErrLocked, val |-> EmptyString]
                      ELSE decryptString(u.c, u.c.ConfigFile.EncryptedUserSymmetricKey)
       IN  IF pinErr
           THEN /\ ret' = Ret("TryUnlock", EmptyString, FALSE, ErrIO, EmptyString)
                /\ UNCHANGED <<cfg, pincache, vault>>
           ELSE IF ~u.ok
           THEN /\ ret' = Ret("TryUnlock", pin, FALSE, "invalid PIN", EmptyString)
                /\ UNCHANGED <<cfg, pincache, vault>>
           ELSE /\ pincache' = IF u.installed THEN pin ELSE pincache
                /\ IF ~IsLoggedIn(u.c)
                   THEN /\ cfg' = u.c
                        /\ vault' = vault
                        /\ ret' = Ret("TryUnlock", pin, TRUE, ErrNil, EmptyString)
                   ELSE IF userKey.err # ErrNil
                   THEN /\ cfg' = IF IsLocked(u.c) THEN u.c ELSE [u.c EXCEPT !.key = ZeroKey]
                        /\ vault' = vault
                        /\ ret' = Ret("TryUnlock", pin, FALSE, userKey.err, EmptyString)
                   ELSE IF keyRejected
                   THEN /\ cfg' = u.c
                        /\ vault' = vault
                        /\ ret' = Ret("TryUnlock", pin, FALSE, "invalid key", EmptyString)
                   ELSE /\ cfg' = u.c
                        /\ vault' = InitKeyringFromUserSymmetricKey(vault)
                        /\ ret' = Ret("TryUnlock", pin, TRUE, ErrNil, EmptyString)
    /\ UNCHANGED <<ws, evt, now, fs, histVars, paths, raceVars>>

\* the agent with a PIN set and an account logged in; the PIN cache holds
\* the PIN or has been emptied
InitTry ==
    /\ \E u \in DeviceUUIDs :
          /\ cfg = UnlockedConfig(u, FALSE)
          /\ disk = UnlockedConfig(u, FALSE).ConfigFile
    /\ pincache \in {EmptyString, RacePin}
    /\ ret = Ret("DefaultConfig", EmptyString, TRUE, ErrNil, EmptyString)
    /\ nops = 0
    /\ sinceLock = "none"
    /\ rekey = NoRekey
    /\ upd = IdleUpd
    /\ acc = IdleAcc
    /\ \E isMemguard \in BOOLEAN :
          vault = InitKeyringFromUserSymmetricKey(NewVault(isMemguard))
    /\ ws = IdleWs
    /\ evt = NoEvt
    /\ now = 0
    /\ fs = IdleFs
    /\ heap = {}
    /\ paths = Migrated

NextTry ==
    \/ \E entered \in Pins, pinErr \in BOOLEAN, keyRejected \in BOOLEAN :
          TryUnlock(entered, pinErr, keyRejected)
    \/ Lock /\ History
    \/ LockKeyring
    \/ \E password \in Pins, write \in BOOLEAN, io \in IOOutcomes :
          UpdatePin(password, write, io) /\ History

SpecTry == InitTry /\ [][NextTry]_vars

---------------------------------------------------------------------------
(* A field setter running concurrently with Lock() *)

NextSetter ==
    \/ Set_Check /\ UNCHANGED syncVars
    \/ Set_Encrypt /\ UNCHANGED syncVars
    \/ Set_Assign /\ UNCHANGED syncVars
    \/ \E io \in IOOutcomes : Set_Write(io) /\ UNCHANGED syncVars
    \/ Lock /\ UNCHANGED <<histVars, paths, raceVars, syncVars>>

SpecSetter == InitRace /\ [][NextSetter]_vars

---------------------------------------------------------------------------
(* UpdatePin with an encryption that can fail, and the calls that take c.mu *)

NextMutex ==
    \/ \E password \in Pins, write \in BOOLEAN, io \in IOOutcomes,
          fails \in Fields \cup {"none"} :
          UpdatePinWith(password, write, io, fails) /\ History
    \/ \E password \in Pins : Unlock(password) /\ History
    \/ Lock /\ History
    \/ Purge /\ History
    \/ \E token \in LoginTokens, io \in IOOutcomes : SetToken(token, io) /\ History

SpecMutex == Init /\ [][NextMutex]_vars

---------------------------------------------------------------------------
(* The key buffers of the Config. Lock() wipes the buffer c.key points to;  *)
(* Unlock, Purge and UpdatePin make c.key point to a new buffer and leave   *)
(* the old one as it is.                                                    *)

\* the buffer the call has left behind: Purge (lines 293-294) always, Unlock
\* (252-253) and UpdatePin (318-319) when they install a key
LetGo ==
    IF ret'.op = "Purge" THEN {cfg.key}
    ELSE IF ret'.op \in {"Unlock", "UpdatePin"} /\ cfg'.key # cfg.key THEN {cfg.key}
    ELSE {}

\* the buffers left behind that hold key bytes
Buffers ==
    /\ heap' = heap \cup (LetGo \ {ZeroKey})
    /\ UNCHANGED <<sinceLock, rekey, paths, raceVars, syncVars>>

NextWipe ==
    \/ \E password \in Pins : Unlock(password) /\ Buffers
    \/ Lock /\ Buffers
    \/ Purge /\ Buffers
    \/ \E password \in Pins, write \in BOOLEAN, io \in IOOutcomes :
          UpdatePin(password, write, io) /\ Buffers

SpecWipe == Init /\ [][NextWipe]_vars

---------------------------------------------------------------------------
(* DoFullSync statement by statement, next to the other writers of the vault *)

\* the reader is not inside a DoFullSync of its own
ReaderFree == ~(fs.pc # "idle" /\ fs.caller = "reader")

\* sync.go lines 30-36: Sync() has returned. The caller is the reader, on a
\* SyncCiphers or SyncVault message (part_000 lines 126-137), or the agent
\* with the user symmetric key at hand
DoFullSync_Sync(caller, sync) ==
    /\ Running
    /\ fs.pc = "idle"
    /\ Budget
    /\ now' = now + 1
    /\ caller = "reader" => /\ ws.pc = "reading"
                            /\ ws.socket = "open"
                            /\ TokenOf(cfg).err = ErrNil
    /\ IF sync.err
       THEN /\ fs' = fs
            /\ ws' = IF caller = "reader" THEN [ws EXCEPT !.pc = "done"] ELSE ws
       ELSE /\ fs' = [pc |-> "fetched", caller |-> caller, sync |-> sync, i |-> 0]
            /\ ws' = ws
    /\ UNCHANGED <<vault, evt, storeVars, histVars, paths, raceVars>>

\* sync.go lines 38-54: the keyring, vault.Clear() and vault.SetLastSynced()
DoFullSync_Clear(keyringErr) ==
    /\ fs.pc = "fetched"
    /\ IF fs.caller = "agent" /\ keyringErr
       THEN /\ fs' = IdleFs
            /\ vault' = vault
       ELSE /\ fs' = [fs EXCEPT !.pc = "adding", !.i = 1]
            /\ vault' = SetLastSynced(
                           Clear(IF fs.caller = "agent"
                                 THEN InitKeyringFromUserSymmetricKey(vault) ELSE vault),
                           now)
    /\ UNCHANGED <<ws, evt, now, storeVars, histVars, paths, raceVars>>

\* sync.go lines 56-67: one round of the loop over sync.Ciphers, or the return
DoFullSync_Add ==
    /\ fs.pc = "adding"
    /\ IF fs.i > Len(fs.sync.Ciphers)
       THEN /\ fs' = IdleFs
            /\ vault' = vault
       ELSE /\ fs' = [fs EXCEPT !.i = @ + 1]
            /\ vault' = AddCiphers(vault, <<fs.sync.Ciphers[fs.i]>>, 1)
    /\ UNCHANGED <<ws, evt, now, storeVars, histVars, paths, raceVars>>

\* handleAddSSH from PostCipher on (ssh.go lines 42-47): posted is what
\* PostCipher returned, the note the server stored or an error
AddSSH(posted) ==
    /\ Running
    /\ Budget
    /\ now' = now + 1
    /\ vault' = IF posted.err THEN vault ELSE AddOrUpdateSecureNote(vault, posted.cipher)
    /\ UNCHANGED <<ws, evt, fs, storeVars, histVars, paths, raceVars>>

\* a connection is streaming and the vault holds what a full sync left
InitMerge ==
    /\ \E u \in DeviceUUIDs :
          /\ cfg = UnlockedConfig(u, FALSE)
          /\ disk = UnlockedConfig(u, FALSE).ConfigFile
    /\ pincache = RacePin
    /\ ret = Ret("DefaultConfig", EmptyString, TRUE, ErrNil, EmptyString)
    /\ nops = 0
    /\ sinceLock = "none"
    /\ rekey = NoRekey
    /\ upd = IdleUpd
    /\ acc = IdleAcc
    /\ \E sync \in Snapshots :
          vault = SetWebsocketConnected(
                     DoFullSync(NewVault(FALSE), sync, TRUE, FALSE, 0).vault, TRUE)
    /\ ws = [pc |-> "reading", socket |-> "open", monitor |-> "running"]
    /\ evt = NoEvt
    /\ now = 0
    /\ fs = IdleFs
    /\ heap = {}
    /\ paths = Migrated

NextMerge ==
    \/ \E caller \in {"reader", "agent"}, sync \in Snapshots \cup {SyncFailed} :
          DoFullSync_Sync(caller, sync)
    \/ \E keyringErr \in BOOLEAN : DoFullSync_Clear(keyringErr)
    \/ DoFullSync_Add
    \/ \E frame \in ServerFrames :
          ReaderFree /\ OnCipherDelete(frame)
    \/ \E frame \in ServerFrames :
          \E fetched \in GetCipherResults(TypeOfFrame[frame].id) :
             ReaderFree /\ OnCipherUpdate(frame, fetched)
    \/ \E frame \in ServerFrames :
          \E fetched \in GetCipherResults(TypeOfFrame[frame].id) :
             ReaderFree /\ OnCipherCreate(frame, fetched)
    \/ \E posted \in {FetchFailed} \cup
                      { Fetched(c) : c \in { x \in Ciphers : /\ x.Type = CipherNote
                                                             /\ x.DeletedDate = ZeroTime } } :
          AddSSH(posted)

SpecMerge == InitMerge /\ [][NextMerge]_vars

---------------------------------------------------------------------------
(* Properties of the credential store *)

\* LockState of the data model: the key buffer is all zero and a key hash is set
StoreLocked == cfg.key = ZeroKey /\ cfg.ConfigFile.ConfigKeyHash # EmptyString

\* the digest of the key derived from password and the device id is the stored hash
DigestMatches(password) ==
    Sha3Hex(Argon2Key(password, cfg.ConfigFile.DeviceUUID)) = cfg.ConfigFile.ConfigKeyHash

\* a step that is the call named op
CallOf(op) == nops' # nops /\ ret'.op = op

\* C1 as stated: in every store state, Unlock(p) returns success if and only
\* if the digest of the key derived from p equals the stored ConfigKeyHash.
\* (Unlock leaves the hash alone, so the state after the call decides it.)
C1_UnlockIffDigest ==
    ret.op = "Unlock" => (ret.ok <=> DigestMatches(ret.arg))

\* C1 amended: on a locked store Unlock(p) returns success if and only if the
\* digest of the key derived from p equals the stored ConfigKeyHash, and then
\* installs that key; on a store that is not locked (Unlocked or
\* Uninitialized) Unlock(p) returns success for every p and changes nothing.
C1_UnlockLockedIffDigest ==
    [][ CallOf("Unlock") =>
          IF StoreLocked
          THEN /\ ret'.ok <=> DigestMatches(ret'.arg)
               /\ ret'.ok => cfg'.key = Argon2Key(ret'.arg, cfg.ConfigFile.DeviceUUID)
               /\ ~ret'.ok => cfg' = cfg
          ELSE ret'.ok /\ cfg' = cfg ]_vars

\* a locked store has just refused a PIN whose digest differs from the hash
C1_Witness ==
    ret.op = "Unlock" /\ ~ret.ok /\ StoreLocked /\ ~DigestMatches(ret.arg)

\* C2 as stated: once a key hash is set and Lock() has been called, every
\* field accessor returns the "config is locked" error until the next
\* successful Unlock.
C2_AccessorsFailUntilUnlock ==
    (sinceLock # "none" /\ ret.op \in AccessorOps) => ret.err = ErrLocked

\* C2 amended: once a key hash is set and Lock() has been called, every field
\* accessor returns the "config is locked" error until the next successful
\* Unlock, Purge or UpdatePin.
C2_AccessorsFailUntilUnlockPurgeUpdatePin ==
    /\ (sinceLock = "locked" /\ ret.op \in AccessorOps) => ret.err = ErrLocked
    /\ sinceLock = "locked" => StoreLocked

\* an accessor has been refused after Lock() on a store with a key hash
C2_Witness ==
    sinceLock = "locked" /\ ret.op \in AccessorOps /\ ret.err = ErrLocked

\* C3: after UpdatePin(newPin) on a store that was not locked, then Lock(),
\* then Unlock(newPin), every field that decrypted before the update decrypts
\* to the same plaintext.
C3_RekeyRoundTrip ==
    rekey.stage = "unlocked" =>
        \A f \in Fields :
            rekey.before[f].err = ErrNil =>
                decryptString(cfg, cfg.ConfigFile[f]) = rekey.before[f]

\* C4: whenever the store is not locked, every Encrypted* field is empty or
\* decrypts under the installed config key.
C4_FieldsUnderCurrentKey ==
    ~StoreLocked =>
        \A f \in Fields :
            \/ cfg.ConfigFile[f] = EmptyString
            \/ Open(cfg.key, cfg.ConfigFile[f]).err = ErrNil

\* C10: IsLocked() is exactly (key all zero and key hash non-empty); a store
\* without key hash is not locked, at construction and after every Lock,
\* Unlock and Purge, none of which sets a key hash.
C10_IsLockedIsZeroKeyAndHash ==
    /\ [](IsLocked(cfg) <=> StoreLocked)
    /\ [](cfg.ConfigFile.ConfigKeyHash = EmptyString => ~IsLocked(cfg))
    /\ [][ ( /\ cfg.ConfigFile.ConfigKeyHash = EmptyString
             /\ (CallOf("Lock") \/ CallOf("Unlock") \/ CallOf("Purge")) )
           => ( /\ cfg'.ConfigFile.ConfigKeyHash = EmptyString
                /\ ~IsLocked(cfg')
                /\ (CallOf("Unlock") => ret'.ok) ) ]_vars

\* Lock() has just run on a store without key hash, which is still not locked
C10_Witness ==
    /\ ret.op = "Lock"
    /\ cfg.ConfigFile.ConfigKeyHash = EmptyString
    /\ cfg.key = ZeroKey
    /\ ~IsLocked(cfg)

\* the new key or its digest seen together with a ciphertext of another key
TornObservation(o) ==
    LET newKey == Argon2Key(upd.password, cfg.ConfigFile.DeviceUUID) IN
    /\ o.seen
    /\ o.key = newKey \/ o.hash = Sha3Hex(newKey)
    /\ o.text # EmptyString
    /\ Open(newKey, o.text).err # ErrNil

\* C5: UpdatePin is atomic with respect to a concurrent accessor: the
\* accessor never sees the new key or the new key hash together with a field
\* still encrypted under the old key, and once both have finished no field is
\* left encrypted under a key other than the installed one.
C5_UpdatePinAtomic ==
    /\ ~TornObservation(acc.obs)
    /\ (upd.pc = "done" /\ acc.pc = "done") =>
          \A f \in Fields :
              \/ cfg.ConfigFile[f] = EmptyString
              \/ Open(cfg.key, cfg.ConfigFile[f]).err = ErrNil

---------------------------------------------------------------------------
(* Properties of the notification channel and the sync engine *)

\* the item collections of a vault, without its status fields
Items(v) == <<v.logins, v.secureNotes, v.sshKeys>>

\* C6: after a cipher-create message whose single-item fetch returned an item
\* with a non-zero deleted timestamp, the vault holds no item under that id
\* (the item was deleted, not upserted).
C6_CreateOfDeletedItemDeletes ==
    ( /\ evt.kind = "SyncCipherCreate"
      /\ evt.fetch = "fetched"
      /\ evt.cipher.DeletedDate # ZeroTime )
    => evt.id \notin VaultIds(vault)

\* C7: a reader step that handles a cipher-create, cipher-update, sync-ciphers,
\* sync-vault or auth-request message whose item or snapshot fetch fails
\* leaves the vault unchanged and the reader reading on the same connection.
C7_FetchFailureDropsOnlyTheEvent ==
    [][ ( /\ now' # now
          /\ evt'.kind \in {"SyncCipherCreate", "SyncCipherUpdate", "SyncCiphers",
                            "AuthRequest"}
          /\ evt'.fetch = "failed" )
        => (vault' = vault /\ ws' = ws /\ ws'.pc = "reading" /\ ws'.socket = "open") ]_vars

\* C8: a reader step on a message shorter than 5 bytes, or on a message whose
\* serialised value is structurally invalid (fewer than 5 top-level elements,
\* element 4 not a non-empty array, first element not a map, Type missing or
\* not an integer), discards the message: the vault is unchanged and the
\* reader goes on reading on the same connection.
C8_MalformedMessageDiscarded ==
    [][ (now' # now /\ (evt'.short \/ evt'.invalid))
        => ( /\ evt'.kind = "discarded"
             /\ vault' = vault
             /\ ws' = ws /\ ws'.pc = "reading" /\ ws'.socket = "open" ) ]_vars

\* a structurally invalid message of 5 bytes or more was discarded while the
\* vault held items, and the reader is still reading
C8_Witness ==
    /\ evt.kind = "discarded"
    /\ evt.invalid /\ ~evt.short
    /\ VaultIds(vault) # {}
    /\ ws.pc = "reading" /\ ws.socket = "open"

\* C9: in every reachable vault and for every snapshot, DoFullSync run twice
\* with the snapshot leaves the same items as DoFullSync run once, and those
\* are the items DoFullSync puts into a new vault; and after every successful
\* full sync the vault holds exactly what the snapshot puts into a new vault.
C9_FullSyncIdempotent ==
    /\ \A sync \in Snapshots :
          LET once == DoFullSync(vault, sync, FALSE, FALSE, now + 1).vault
              twice == DoFullSync(once, sync, FALSE, FALSE, now + 2).vault
              fresh == DoFullSync(NewVault(FALSE), sync, FALSE, FALSE, now + 1).vault
          IN  Items(twice) = Items(once) /\ Items(once) = Items(fresh)
    /\ (evt.kind \in {"SyncCiphers", "DoFullSync"} /\ evt.fetch = "fetched")
          => Items(vault) = Items(DoFullSync(NewVault(FALSE), evt.sync, FALSE, FALSE, now).vault)

\* a full sync succeeded on a vault that held an item the snapshot lacks
C9_Witness ==
    /\ evt.kind \in {"SyncCiphers", "DoFullSync"}
    /\ evt.fetch = "fetched"
    /\ evt.stale
    /\ Len(evt.sync.Ciphers) > 0

---------------------------------------------------------------------------
(* Further properties of the credential store *)

\* C11: a VerifyPin call, whatever PIN it is given and whatever it returns,
\* leaves the config key, the key hash, every encrypted field (the whole
\* Config), the persisted file and the cached PIN as they were; so the lock
\* state is the same after the call as before.
C11_VerifyPinMutatesNothing ==
    [][ (nops' # nops /\ ret'.op = "VerifyPin")
        => ( /\ cfg' = cfg /\ disk' = disk /\ pincache' = pincache
             /\ IsLocked(cfg') = IsLocked(cfg) ) ]_vars

\* VerifyPin returned true on a locked store, which is still locked
C11_Witness ==
    /\ ret.op = "VerifyPin" /\ ret.ok
    /\ IsLocked(cfg)

---------------------------------------------------------------------------
(* Further properties of the notification channel and the sync engine *)

\* C12: CreateAuthResponse has been called for the message last handled only
\* if that message was an auth request whose details were fetched, the
\* approval prompt returned approved without error and the biometrics check
\* passed.
C12_PostOnlyAfterApprovalAndBiometrics ==
    evt.responded
    => ( /\ evt.kind = "AuthRequest"
         /\ evt.fetch = "fetched"
         /\ evt.approval = "approved"
         /\ evt.biometrics = "passed" )

\* an auth request went all the way to CreateAuthResponse
C12_Witness ==
    /\ evt.kind = "AuthRequest"
    /\ evt.responded

\* a connection is streaming: the handshake is done and the reader is in its loop
Streaming == ws.pc = "reading"

\* connectToWebsocket has returned after reporting the connection gone
Disconnected == ws.pc = "daemon" /\ ~vault.websocketConnected

\* C13: whenever the store is locked or logged out, or the keyring locked,
\* while a connection is streaming, connectToWebsocket eventually reports
\* the connection gone (or the process has ended before it could).
C13_LockLeadsToDisconnect ==
    (Streaming /\ MonitorTrips) ~> (Disconnected \/ ~Running)

\* C13, amended: whenever the store is locked or logged out, or the keyring
\* locked, while a connection is streaming, then eventually the connection is
\* reported gone, or the condition has ended (the store was unlocked before
\* the monitor woke up), or the process has ended.
C13_LockLeadsToDisconnectUnlessUndone ==
    (Streaming /\ MonitorTrips) ~> (Disconnected \/ ~MonitorTrips \/ ~Running)

\* the monitor closed the socket of a locked store and the blocked reader
\* returned, no message having arrived
C13_Witness ==
    /\ ws.pc = "done" /\ ws.socket = "closed" /\ ws.monitor = "returned"
    /\ IsLocked(cfg)
    /\ evt.kind = "none"

C15_FullSyncNotInterleaved ==
    [][ ( /\ fs.pc # "idle"
          /\ \/ vault'.logins # vault.logins
             \/ vault'.secureNotes # vault.secureNotes
             \/ vault'.sshKeys # vault.sshKeys )
        => fs' # fs ]_vars

\* C16: a call of Lock() or Purge() leaves the key buffer of the store all
\* zero and leaves no buffer behind that still holds the bytes of the key
\* that was active when the call was made.
C16_KeyZeroedOnLockAndPurge ==
    [][ (CallOf("Lock") \/ CallOf("Purge"))
        => (cfg'.key = ZeroKey /\ heap' = heap) ]_vars

\* C17: when UpdatePin(newPin) has returned, every Encrypted* field whose
\* decryption at lines 311-316 failed is empty in the Config, and is empty in
\* the file if the call wrote one.
C17_FailedFieldsEmptied ==
    [][ CallOf("UpdatePin") =>
          LET newKey == Argon2Key(ret'.arg, cfg.ConfigFile.DeviceUUID)
              plaintext == DecryptAll([cfg EXCEPT !.ConfigFile.ConfigKeyHash = Sha3Hex(newKey)])
          IN  \A f \in Fields :
                 plaintext[f].err # ErrNil =>
                    /\ cfg'.ConfigFile[f] = EmptyString
                    /\ (disk' # disk /\ disk' # NoFile) => disk'[f] = EmptyString ]_vars

\* C18: when a LogOut message has ended the process, the secret state has
\* been wiped first: every Encrypted* field and the key hash are empty, in
\* the Config and in its file, the key buffer is zero, the vault holds no
\* item, and the process ended through memguard's teardown.
C18_LogOutWipesBeforeExit ==
    ws.pc = "exit" =>
        /\ \A f \in Fields : cfg.ConfigFile[f] = EmptyString
        /\ cfg.ConfigFile.ConfigKeyHash = EmptyString
        /\ cfg.key = ZeroKey
        /\ disk # NoFile =>
              /\ \A f \in Fields : disk[f] = EmptyString
              /\ disk.ConfigKeyHash = EmptyString
        /\ VaultIds(vault) = {}
        /\ ExitCall(vault) = "memguard.SafeExit(0)"

\* the cipher-delete message for item "abc", its length prefix one byte long
\* or two
DeleteAbc ==
    { Frame(prefix, Notification(MpInt8(SyncCipherDelete), IdPayload(AnId))) :
         prefix \in {"varint", "padded"} }

\* C19: the cipher-delete message for item "abc" parses to (SyncCipherDelete,
\* "abc", success), whatever the length of its prefix, and the step that
\* handles it takes "abc" out of every collection of the vault and leaves
\* every other item, the other fields of the vault, the Config and its file
\* as they were.
C19_DeleteRemovesExactlyTheItem ==
    /\ [](\A frame \in DeleteAbc :
             /\ Len(frame.bytes) >= 5
             /\ TypeOfFrame[frame] = Parsed(SyncCipherDelete, AnId, TRUE))
    /\ [][ (now' # now /\ evt'.kind = "SyncCipherDelete" /\ evt'.id = AnId) =>
             /\ \A coll \in {"logins", "secureNotes", "sshKeys"} :
                   /\ DOMAIN vault'[coll] = DOMAIN vault[coll] \ {AnId}
                   /\ \A id \in DOMAIN vault'[coll] : vault'[coll][id] = vault[coll][id]
             /\ vault'.lastSynced = vault.lastSynced
             /\ vault'.websocketConnected = vault.websocketConnected
             /\ vault'.Keyring = vault.Keyring
             /\ cfg' = cfg
             /\ disk' = disk
             /\ IsLocked(cfg') = IsLocked(cfg)
             /\ ws' = ws ]_vars

\* the message was handled while the vault held "abc" and another item: the
\* other item is still there
C19_Witness ==
    /\ evt.kind = "SyncCipherDelete"
    /\ evt.id = AnId
    /\ VaultIds(vault) # {}
    /\ AnId \notin VaultIds(vault)

\* C20: when a cipher-create or cipher-update message has fetched a live
\* item of type Login, SecureNote or SSHKey, the item is afterwards in the
\* collection in which a full sync of a snapshot holding it puts it.
C20_EventUpsertsLikeFullSync ==
    [][ ( /\ now' # now
          /\ evt'.kind \in {"SyncCipherCreate", "SyncCipherUpdate"}
          /\ evt'.fetch = "fetched"
          /\ evt'.cipher.DeletedDate = ZeroTime
          /\ evt'.cipher.Type \in {CipherLogin, CipherNote, CipherSSHKey} )
        => LET cipher == evt'.cipher
               full == DoFullSync(vault, SyncData(<<cipher>>), FALSE, FALSE, now').vault
           IN  \A coll \in {"logins", "secureNotes", "sshKeys"} :
                  cipher.ID \in DOMAIN full[coll] =>
                     /\ cipher.ID \in DOMAIN vault'[coll]
                     /\ vault'[coll][cipher.ID] = cipher ]_vars

\* C21: websocketMessageType returns for every message, with success true or
\* false: no message makes the reader panic in an unchecked type assertion.
C21_DecoderIsTotal == ws.pc # "panic"

\* C22: when UpdatePin has returned, on whichever path, c.mu is free, so that
\* the next Lock, Unlock, Purge or WriteConfig can take it.
C22_UpdatePinReleasesMutex ==
    ret.op = "UpdatePin" => cfg.mu = "unlocked"

\* C23: no field setter calls c.mu.Unlock() while c.mu is free, in any
\* interleaving with Lock(): the setter is never stopped by the fatal error
\* of unlocking an unlocked mutex.
C23_SetterNeverUnlocksFreeMutex ==
    acc.pc # "fatal"

\* C24: whenever the daemon is outside connectToWebsocket (the call has
\* returned, or was never made), the websocket-connected flag of the vault
\* is false.
C24_FlagFalseAfterReturn ==
    ws.pc = "daemon" => ~vault.websocketConnected

\* C25: whenever ReadConfig has returned a nil error, the Config it returned
\* has a key buffer of 32 zero bytes and the record decoded from the config
\* file, on the migration branches as on the normal path.
C25_ReadConfigNilErrorMeansConfig ==
    (ret.op = "ReadConfig" /\ ret.err = ErrNil) =>
        /\ cfg.key = NewBuffer
        /\ disk \notin {NoFile, CorruptFile}
        /\ cfg.ConfigFile = Decode(disk)

\* C26: a TryUnlock that is called on a locked store and returns an error
\* leaves the store locked, its key buffer zero, and the keyring as it was.
C26_FailedTryUnlockLeavesLocked ==
    [][ (CallOf("TryUnlock") /\ IsLocked(cfg) /\ ret'.err # ErrNil) =>
          /\ IsLocked(cfg')
          /\ cfg'.key = ZeroKey
          /\ vault'.Keyring = vault.Keyring ]_vars

====
